---- MODULE Spec2Model ----
(***************************************************************************)
(* A model of the token ledger canister: the Blockchain (ic_block.rs), the *)
(* Balances and the Ledger (lib.rs), with TOKENs arithmetic (ic_token.rs). *)
(*                                                                         *)
(* Three specifications share the variables:                               *)
(*   SpecChain     Blockchain::add_block / remove_archived_blocks alone,   *)
(*                 fed arbitrary blocks;                                   *)
(*   SpecBalances  Balances::add_payment alone, fed arbitrary operations;  *)
(*   Spec          the Ledger: from_init and add_payment, which calls      *)
(*                 add_payment_with_timestamp with the canister's time.    *)
(*                                                                         *)
(* A panic (panic!, expect, unwrap, assert!) traps the canister message:   *)
(* the state transition is discarded and the state is what it was before   *)
(* the call.  A returned Err is an ordinary return: whatever the method    *)
(* has mutated before returning stays mutated.                             *)
(***************************************************************************)
EXTENDS Integers, Sequences, FiniteSets, TLC

VARIABLES
    balances,               \* Ledger.balances: [store, icpt_pool]
    blockchain,             \* Ledger.blockchain: [blocks, last_hash, last_timestamp, num_archived_blocks]
    blocks_notified,        \* Ledger.blocks_notified: the set of heights with a flag
    transactions_by_hash,   \* Ledger.transactions_by_hash: function hash -> height
    transactions_by_height, \* Ledger.transactions_by_height: queue of TransactionInfo
    minting_account_id,     \* Ledger.minting_account_id: Option<AccountIdentifier>
    time,                   \* dfn_core::api::now(): the time the canister is given, never decreasing
    archived,               \* history: the encoded blocks dropped by remove_archived_blocks, oldest first
    in_flight,              \* the archiving attempts that are waiting for the archive's answer
    accepted,               \* history: the calls of add_payment_with_timestamp that returned Ok, in order
    ret                     \* history: the last call, its arguments, its result and the state before it

vars == <<balances, blockchain, blocks_notified, transactions_by_hash,
          transactions_by_height, minting_account_id, time, archived, in_flight,
          accepted, ret>>

----------------------------------------------------------------------------
(* Bounds of the model *)

\* TOKENs holds a u64; the model's amounts range over 0..MaxE8s and
\* TOKENs::MAX is MaxE8s (checked arithmetic never wraps, so only the
\* position of the ceiling matters).
MaxE8s == 3
\* Times (nanoseconds in the code) range over 0..MaxTime.
MaxTime == 3
\* Blockchain-only specification: add_block is offered while the chain is shorter.
MaxChainBlocks == 3
\* Ledger specification: add_payment is offered until this many client
\* payments have been accepted.
MaxLedgerPayments == 2
\* Memo values range over 0..MaxMemo.
MaxMemo == 0
\* Notifications are sent for the heights 0..MaxNotifyHeight.
MaxNotifyHeight == 0
\* Account identifiers are 1..NumAccounts (totally ordered, as Ord on AccountIdentifier).
NumAccounts == 3
\* Archiving specification: trigger_threshold and num_blocks_to_archive range
\* over 1..MaxArchiveBatch.
MaxArchiveBatch == 2
\* TOKEN_SUBDIVIDABLE_BY (10^17 in the code) in e8s.
SubdivideUnits == 2
\* Polynomial specification: the polynomials sampled have degree 0..MaxDegree.
MaxDegree == 2
\* transaction_window (24 hours in the code) in time units.
WindowUnits == 2
\* PERMITTED_DRIFT (60 seconds in the code) in time units.
DriftUnits == 1
\* maximum_number_of_accounts (50_000_000 in the code).
AccountsLimit == 2
\* accounts_overflow_trim_quantity (100_000 in the code).
TrimQuantity == 1

----------------------------------------------------------------------------
(* Option, Result *)

None == <<>>
Some(x) == <<x>>
IsSome(o) == o # <<>>
Unwrap(o) == o[1]

Ok(v) == [ok |-> TRUE, val |-> v]
Err(e) == [ok |-> FALSE, err |-> e]
IsErr(r, e) == (~r.ok) /\ r.err = e

Min(a, b) == IF a < b THEN a ELSE b

----------------------------------------------------------------------------
(* TOKENs (ic_token.rs) *)

TOKENs_MAX == MaxE8s
TOKENs_ZERO == 0
Amounts == 0..MaxE8s

\* impl Add for TOKENs: checked_add
TokensAdd(a, b) == IF a + b > MaxE8s THEN Err("overflow") ELSE Ok(a + b)

\* The subtraction wrapping around instead of failing.
TokensSub_Wrapping(a, b) == Ok((a + (MaxE8s + 1) - b) % (MaxE8s + 1))

\* impl Sub for TOKENs: checked_sub
TokensSub(a, b) == IF a < b THEN Err("underflow") ELSE Ok(a - b)

\* impl AddAssign for TOKENs: the panic of expect("+= panicked"), and the value
AddAssignPanics(a, b) == ~TokensAdd(a, b).ok
AddAssign(a, b) == TokensAdd(a, b).val

\* impl SubAssign for TOKENs: the panic of expect("-= panicked"), and the value
SubAssignPanics(a, b) == ~TokensSub(a, b).ok
SubAssign(a, b) == TokensSub(a, b).val

TOKEN_SUBDIVIDABLE_BY == SubdivideUnits

\* u64::checked_mul
CheckedMul(a, b) == IF a * b > MaxE8s THEN None ELSE Some(a * b)

\* u64::checked_add
CheckedAdd(a, b) == IF a + b > MaxE8s THEN None ELSE Some(a + b)

ERR_CONSTRUCTION == "Constructing TOKEN failed because the underlying u64 overflowed"
ERR_TOO_MANY_E8S == "You've added too many E8s, make sure there are less than {}"

\* The constructor without the test of e8s against TOKEN_SUBDIVIDABLE_BY.
TokensNew_NoSubunitCheck(tokens, e8s) ==
    LET token_part == CheckedMul(tokens, TOKEN_SUBDIVIDABLE_BY)
    IN IF token_part = None
       THEN Err(ERR_CONSTRUCTION)
       ELSE LET sum == CheckedAdd(Unwrap(token_part), e8s)
            IN IF sum = None THEN Err(ERR_CONSTRUCTION) ELSE Ok(Unwrap(sum))

\* TOKENs::new
TokensNew(tokens, e8s) ==
    LET token_part == CheckedMul(tokens, TOKEN_SUBDIVIDABLE_BY)
    IN IF token_part = None
       THEN Err(ERR_CONSTRUCTION)
       ELSE IF e8s >= TOKEN_SUBDIVIDABLE_BY
       THEN Err(ERR_TOO_MANY_E8S)
       ELSE LET sum == CheckedAdd(Unwrap(token_part), e8s)
            IN IF sum = None THEN Err(ERR_CONSTRUCTION) ELSE Ok(Unwrap(sum))

\* TOKENs::unpack: (get_tokens, get_remainder_e8s)
Unpack(t) == <<t \div TOKEN_SUBDIVIDABLE_BY, t % TOKEN_SUBDIVIDABLE_BY>>

----------------------------------------------------------------------------
(* Operation, Transaction, Block, EncodedBlock *)

Accounts == 1..NumAccounts
Memos == 0..MaxMemo
Times == 0..MaxTime

Mint(to, amount) == [kind |-> "Mint", to |-> to, amount |-> amount]
Burn(from, amount) == [kind |-> "Burn", from |-> from, amount |-> amount]
Transfer(from, to, amount, fee) ==
    [kind |-> "Transfer", from |-> from, to |-> to, amount |-> amount, fee |-> fee]

Transaction(operation, memo, created_at_time) ==
    [operation |-> operation, memo |-> memo, created_at_time |-> created_at_time]

\* serde_cbor::ser::to_vec_packed(&transaction): the fields in declaration order
CborTransaction(tx) == <<"cbor", tx.operation, tx.memo, tx.created_at_time>>

\* Sha256 is modelled as collision free: the digest determines the bytes.
Sha256(bytes) == <<"sha256", bytes>>

\* Transaction::hash
TransactionHash(tx) == Sha256(CborTransaction(tx))

\* Block::new_from_transaction
NewFromTransaction(parent_hash, transaction, timestamp) ==
    [parent_hash |-> parent_hash, transaction |-> transaction, timestamp |-> timestamp]

\* Block::encode: ProtoBuf::new(self).into_bytes(), the fields in tag order
Encode(block) == <<"pb", block.parent_hash, block.transaction, block.timestamp>>

\* EncodedBlock::decode: ProtoBuf::from_bytes
Decode(encoded) ==
    [parent_hash |-> encoded[2], transaction |-> encoded[3], timestamp |-> encoded[4]]

\* EncodedBlock::hash
BlockHash(encoded) == Sha256(encoded)

----------------------------------------------------------------------------
(* Blockchain (ic_block.rs) *)

ERR_PARENT == "Cannot apply block because its parent hash doesn't match."
ERR_TIMESTAMP == "Cannot apply block because its timestamp is older than the previous tip."

\* impl Default for Blockchain
BlockchainDefault ==
    [blocks |-> <<>>, last_hash |-> None, last_timestamp |-> 0, num_archived_blocks |-> 0]

num_unarchived_blocks(bc) == Len(bc.blocks)

chain_length(bc) == bc.num_archived_blocks + num_unarchived_blocks(bc)

\* The append with the timestamp check left out.
AddBlockWithEncoded_NoTimestampCheck(bc, block, encoded_block) ==
    IF block.parent_hash # bc.last_hash
    THEN [result |-> Err(ERR_PARENT), bc |-> bc]
    ELSE LET nb == [bc EXCEPT !.last_hash = Some(BlockHash(encoded_block)),
                              !.last_timestamp = block.timestamp,
                              !.blocks = Append(@, encoded_block)]
         IN [result |-> Ok(chain_length(nb) - 1), bc |-> nb]

\* The append with the parent-hash check left out.
AddBlockWithEncoded_NoParentCheck(bc, block, encoded_block) ==
    IF block.timestamp < bc.last_timestamp
    THEN [result |-> Err(ERR_TIMESTAMP), bc |-> bc]
    ELSE LET nb == [bc EXCEPT !.last_hash = Some(BlockHash(encoded_block)),
                              !.last_timestamp = block.timestamp,
                              !.blocks = Append(@, encoded_block)]
         IN [result |-> Ok(chain_length(nb) - 1), bc |-> nb]

\* The append returning the chain length instead of the new block's height.
AddBlockWithEncoded_OffByOne(bc, block, encoded_block) ==
    IF block.parent_hash # bc.last_hash
    THEN [result |-> Err(ERR_PARENT), bc |-> bc]
    ELSE IF block.timestamp < bc.last_timestamp
    THEN [result |-> Err(ERR_TIMESTAMP), bc |-> bc]
    ELSE LET nb == [bc EXCEPT !.last_hash = Some(BlockHash(encoded_block)),
                              !.last_timestamp = block.timestamp,
                              !.blocks = Append(@, encoded_block)]
         IN [result |-> Ok(chain_length(nb)), bc |-> nb]

\* Blockchain::add_block_with_encoded: the result and the blockchain after the call
AddBlockWithEncoded(bc, block, encoded_block) ==
    IF block.parent_hash # bc.last_hash
    THEN [result |-> Err(ERR_PARENT), bc |-> bc]
    ELSE IF block.timestamp < bc.last_timestamp
    THEN [result |-> Err(ERR_TIMESTAMP), bc |-> bc]
    ELSE LET nb == [bc EXCEPT !.last_hash = Some(BlockHash(encoded_block)),
                              !.last_timestamp = block.timestamp,
                              !.blocks = Append(@, encoded_block)]
         IN [result |-> Ok(chain_length(nb) - 1), bc |-> nb]

\* Blockchain::add_block
AddBlock(bc, block) == AddBlockWithEncoded(bc, block, Encode(block))

\* The lookup indexing the live list by the height itself.
Get_NoOffset(bc, height) ==
    IF height < bc.num_archived_blocks
    THEN None
    ELSE IF height < Len(bc.blocks) THEN Some(bc.blocks[height + 1]) ELSE None

\* Blockchain::get
Get(bc, height) ==
    IF height < bc.num_archived_blocks
    THEN None
    ELSE LET i == height - bc.num_archived_blocks
         IN IF i < Len(bc.blocks) THEN Some(bc.blocks[i + 1]) ELSE None

\* Blockchain::remove_archived_blocks: the panic! of its guard
RemoveArchivedBlocksPanics(bc, len) == len > Len(bc.blocks)

\* The removal dropping the newest blocks instead of the oldest.
RemoveArchivedBlocks_DropTail(bc, len) ==
    [bc EXCEPT !.blocks = SubSeq(@, 1, Len(@) - len),
               !.num_archived_blocks = @ + len]

\* Blockchain::remove_archived_blocks, when it does not panic
RemoveArchivedBlocks(bc, len) ==
    [bc EXCEPT !.blocks = SubSeq(@, len + 1, Len(@)),
               !.num_archived_blocks = @ + len]

\* The selection with the threshold test made strict: a chain of exactly
\* trigger_threshold live blocks is not archived.
GetBlocksForArchiving_Strict(bc, trigger_threshold, num_blocks_to_archive) ==
    LET num_blocks_before == num_unarchived_blocks(bc)
    IN IF num_blocks_before <= trigger_threshold
       THEN << >>
       ELSE SubSeq(bc.blocks, 1, Min(num_blocks_to_archive, num_blocks_before))

\* Blockchain::get_blocks_for_archiving
GetBlocksForArchiving(bc, trigger_threshold, num_blocks_to_archive) ==
    LET num_blocks_before == num_unarchived_blocks(bc)
    IN IF num_blocks_before < trigger_threshold
       THEN << >>
       ELSE SubSeq(bc.blocks, 1, Min(num_blocks_to_archive, num_blocks_before))

----------------------------------------------------------------------------
(* Balances (lib.rs) *)

\* update that stores the value the closure returned whatever it is.
StoreUpdate_KeepZero(store, k, new_v) ==
    [a \in (DOMAIN store) \cup {k} |-> IF a = k THEN new_v ELSE store[a]]

\* impl BalancesStore for HashMap: update, given the value the closure returned
StoreUpdate(store, k, new_v) ==
    IF new_v # TOKENs_ZERO
    THEN [a \in (DOMAIN store) \cup {k} |-> IF a = k THEN new_v ELSE store[a]]
    ELSE [a \in (DOMAIN store) \ {k} |-> store[a]]

\* impl BalancesStore for HashMap: get_balance
GetBalance(store, k) == IF k \in DOMAIN store THEN Some(store[k]) ELSE None

\* Balances::new
BalancesNew == [store |-> << >>, icpt_pool |-> TOKENs_MAX]

\* debit without the test of the balance against the amount.
DebitPanics_AbsentOnly(bal, from, amount) ==
    GetBalance(bal.store, from) = None

\* Balances::debit: the two panic! of its closure
DebitPanics(bal, from, amount) ==
    \/ GetBalance(bal.store, from) = None
    \/ bal.store[from] < amount

\* Balances::debit, when it does not panic
Debit(bal, from, amount) ==
    [bal EXCEPT !.store = StoreUpdate(@, from, @[from] - amount)]

\* Balances::account_balance
AccountBalance(bal, account) ==
    IF GetBalance(bal.store, account) = None
    THEN TOKENs_ZERO
    ELSE Unwrap(GetBalance(bal.store, account))

\* Balances::credit: balance += amount panics on overflow
CreditPanics(bal, to, amount) == ~TokensAdd(AccountBalance(bal, to), amount).ok

\* Balances::credit, when it does not panic
Credit(bal, to, amount) ==
    [bal EXCEPT !.store = StoreUpdate(@, to, AccountBalance(bal, to) + amount)]

\* Balances::add_payment: the calls that panic, in the order the code makes them
BalancesAddPaymentPanics(bal, payment) ==
    IF payment.kind = "Transfer" THEN
        \/ ~TokensAdd(payment.amount, payment.fee).ok
        \/ DebitPanics(bal, payment.from, payment.amount + payment.fee)
        \/ CreditPanics(Debit(bal, payment.from, payment.amount + payment.fee),
                        payment.to, payment.amount)
        \/ ~TokensAdd(bal.icpt_pool, payment.fee).ok
    ELSE IF payment.kind = "Burn" THEN
        \/ DebitPanics(bal, payment.from, payment.amount)
        \/ ~TokensAdd(bal.icpt_pool, payment.amount).ok
    ELSE
        \/ CreditPanics(bal, payment.to, payment.amount)
        \/ ~TokensSub(bal.icpt_pool, payment.amount).ok

\* The payment with the Transfer fee debited but not returned to the pool.
BalancesAddPayment_FeeLost(bal, payment) ==
    IF payment.kind = "Transfer" THEN
        Credit(Debit(bal, payment.from, payment.amount + payment.fee),
               payment.to, payment.amount)
    ELSE IF payment.kind = "Burn" THEN
        [Debit(bal, payment.from, payment.amount)
            EXCEPT !.icpt_pool = @ + payment.amount]
    ELSE
        [Credit(bal, payment.to, payment.amount)
            EXCEPT !.icpt_pool = @ - payment.amount]

\* Balances::add_payment, when it does not panic
BalancesAddPayment(bal, payment) ==
    IF payment.kind = "Transfer" THEN
        [Credit(Debit(bal, payment.from, payment.amount + payment.fee),
                payment.to, payment.amount)
            EXCEPT !.icpt_pool = @ + payment.fee]
    ELSE IF payment.kind = "Burn" THEN
        [Debit(bal, payment.from, payment.amount)
            EXCEPT !.icpt_pool = @ + payment.amount]
    ELSE
        [Credit(bal, payment.to, payment.amount)
            EXCEPT !.icpt_pool = @ - payment.amount]

\* Balances::total_supply: the panic! of its unwrap_or_else
TotalSupplyPanics(bal) == ~TokensSub(TOKENs_MAX, bal.icpt_pool).ok

\* Balances::total_supply, when it does not panic
TotalSupply(bal) == TokensSub(TOKENs_MAX, bal.icpt_pool).val

\* Every Operation over the model's accounts and amounts.
AllOperations ==
    {Mint(to, amount) : to \in Accounts, amount \in Amounts}
    \cup {Burn(from, amount) : from \in Accounts, amount \in Amounts}
    \cup {Transfer(t[1], t[2], t[3], t[4]) :
            t \in Accounts \X Accounts \X Amounts \X Amounts}

----------------------------------------------------------------------------
(* The state after construction *)

\* impl Default for Ledger: the fields the model keeps
LedgerDefault ==
    /\ balances = BalancesNew
    /\ blockchain = BlockchainDefault
    /\ blocks_notified = {}
    /\ transactions_by_hash = << >>
    /\ transactions_by_height = << >>
    /\ minting_account_id = None
    /\ time = 0
    /\ archived = << >>
    /\ in_flight = << >>
    /\ accepted = << >>

NoCall == [op |-> "none"]

Init == LedgerDefault /\ ret = NoCall

\* The whole chain by height: what was archived, then the live blocks.
FullChain == archived \o blockchain.blocks

----------------------------------------------------------------------------
(* SpecChain: the Blockchain alone *)

ledgerOnly == <<balances, blocks_notified, transactions_by_hash,
                transactions_by_height, minting_account_id, time, in_flight,
                accepted>>

\* The transactions the offered blocks carry.
ChainTransactions == {Transaction(Mint(1, 1), m, 0) : m \in Memos}

\* The parent hashes offered: none, the tip, the hash of any block of the chain.
ChainParents ==
    {None, blockchain.last_hash}
    \cup {Some(BlockHash(FullChain[i])) : i \in 1..Len(FullChain)}

\* A call of Blockchain::add_block
ChainAddBlock ==
    /\ chain_length(blockchain) < MaxChainBlocks
    /\ \E parent_hash \in ChainParents, tx \in ChainTransactions, timestamp \in Times :
        LET block == NewFromTransaction(parent_hash, tx, timestamp)
            r == AddBlock(blockchain, block)
        IN /\ blockchain' = r.bc
           /\ ret' = [op |-> "add_block", block |-> block, result |-> r.result,
                      pre |-> blockchain]
    /\ UNCHANGED <<ledgerOnly, archived>>

\* A call of Blockchain::remove_archived_blocks
ChainRemoveArchivedBlocks ==
    /\ \E len \in 0..(Len(blockchain.blocks) + 1) :
        IF RemoveArchivedBlocksPanics(blockchain, len)
        THEN /\ ret' = [op |-> "remove_archived_blocks", len |-> len,
                        panicked |-> TRUE, pre |-> blockchain, pre_archived |-> archived]
             /\ UNCHANGED <<blockchain, archived>>
        ELSE /\ blockchain' = RemoveArchivedBlocks(blockchain, len)
             /\ archived' = archived \o SubSeq(blockchain.blocks, 1, len)
             /\ ret' = [op |-> "remove_archived_blocks", len |-> len,
                        panicked |-> FALSE, pre |-> blockchain, pre_archived |-> archived]
    /\ UNCHANGED ledgerOnly

\* The trigger_threshold and num_blocks_to_archive arguments offered.
ArchiveSizes == 0..(MaxChainBlocks + 1)

\* A call of Blockchain::get_blocks_for_archiving (it takes &self)
ChainGetBlocksForArchiving ==
    /\ \E trigger_threshold \in ArchiveSizes, num_blocks_to_archive \in ArchiveSizes :
        ret' = [op |-> "get_blocks_for_archiving",
                trigger_threshold |-> trigger_threshold,
                num_blocks_to_archive |-> num_blocks_to_archive,
                batch |-> GetBlocksForArchiving(blockchain, trigger_threshold,
                                                num_blocks_to_archive),
                pre |-> blockchain]
    /\ UNCHANGED <<blockchain, ledgerOnly, archived>>

NextChain == ChainAddBlock \/ ChainRemoveArchivedBlocks \/ ChainGetBlocksForArchiving

SpecChain == Init /\ [][NextChain]_vars

----------------------------------------------------------------------------
(* SpecBalances: the Balances alone *)

\* A call of Balances::add_payment
BalancesPayment ==
    /\ \E payment \in AllOperations :
        IF BalancesAddPaymentPanics(balances, payment)
        THEN /\ ret' = [op |-> "balances_add_payment", payment |-> payment,
                        panicked |-> TRUE, pre |-> balances]
             /\ UNCHANGED balances
        ELSE /\ balances' = BalancesAddPayment(balances, payment)
             /\ ret' = [op |-> "balances_add_payment", payment |-> payment,
                        panicked |-> FALSE, pre |-> balances]
    /\ UNCHANGED <<blockchain, blocks_notified, transactions_by_hash,
                   transactions_by_height, minting_account_id, time, archived, in_flight,
                   accepted>>

NextBalances == BalancesPayment

SpecBalances == Init /\ [][NextBalances]_vars

----------------------------------------------------------------------------
(* Ledger (lib.rs) *)

\* Ledger::default: transaction_window
transaction_window == WindowUnits
\* ic_types::ingress::PERMITTED_DRIFT
PERMITTED_DRIFT == DriftUnits
\* Ledger::default: maximum_number_of_accounts
maximum_number_of_accounts == AccountsLimit
\* Ledger::default: accounts_overflow_trim_quantity
accounts_overflow_trim_quantity == TrimQuantity
\* Memo::default
MemoDefault == 0
\* The account from_init is given as the minting account.
MintingAccount == 0

ERR_EXPIRED == "Rejecting expired transaction."
ERR_FUTURE == "Rejecting transaction with timestamp in the future."
ERR_DUPLICATE == "Transaction already exists on chain."
PANIC == "panicked"

\* impl Add<Duration> for TimeStamp: the sum, for times far below u64::MAX
TimeStampAdd(t, d) == t + d

\* The fields of the Ledger as one value.
LedgerState ==
    [balances |-> balances,
     blockchain |-> blockchain,
     blocks_notified |-> blocks_notified,
     transactions_by_hash |-> transactions_by_hash,
     transactions_by_height |-> transactions_by_height]

\* TransactionInfo
TransactionInfo(block_timestamp, transaction_hash) ==
    [block_timestamp |-> block_timestamp, transaction_hash |-> transaction_hash]

\* The purge test reaching one time unit further: an entry is dropped one time
\* unit before its window has passed.
PurgeStops_Early(info, now) ==
    TimeStampAdd(info.block_timestamp, transaction_window) > now + 1

\* The purge test with the comparison made non-strict: an entry is kept one
\* time unit longer.
PurgeStops_Late(info, now) ==
    TimeStampAdd(info.block_timestamp, transaction_window) >= now

\* purge_old_transactions: "Stop at a sufficiently recent block."
PurgeStops(info, now) ==
    TimeStampAdd(info.block_timestamp, transaction_window) > now

RECURSIVE PurgeOldTransactions(_, _)
\* Ledger::purge_old_transactions: the ledger after the loop, or the failed assert!
PurgeOldTransactions(L, now) ==
    IF L.transactions_by_height = << >>
    THEN [ledger |-> L, panicked |-> FALSE]
    ELSE LET info == Head(L.transactions_by_height)
         IN IF PurgeStops(info, now)
            THEN [ledger |-> L, panicked |-> FALSE]
            ELSE IF info.transaction_hash \notin DOMAIN L.transactions_by_hash
            THEN [ledger |-> L, panicked |-> TRUE]
            ELSE LET bh == L.transactions_by_hash[info.transaction_hash]
                 IN PurgeOldTransactions(
                        [L EXCEPT
                            !.transactions_by_hash =
                                [h \in (DOMAIN @) \ {info.transaction_hash} |-> @[h]],
                            !.blocks_notified = @ \ {bh},
                            !.transactions_by_height = Tail(@)],
                        now)

\* The expiry test with the boundary rejected too.
IsExpired_Boundary(created_at_time, now) ==
    TimeStampAdd(created_at_time, transaction_window) <= now

\* add_payment_with_timestamp: created_at_time + self.transaction_window < now
IsExpired(created_at_time, now) ==
    TimeStampAdd(created_at_time, transaction_window) < now

\* add_payment_with_timestamp: created_at_time > now + PERMITTED_DRIFT
IsInFuture(created_at_time, now) ==
    created_at_time > TimeStampAdd(now, PERMITTED_DRIFT)

\* The duplicate test that never finds a duplicate.
IsDuplicate_Never(by_hash, transaction_hash) == FALSE

\* add_payment_with_timestamp: self.transactions_by_hash.contains_key(&transaction_hash)
IsDuplicate(by_hash, transaction_hash) == transaction_hash \in DOMAIN by_hash

\* The test that starts the trimming only above the sum.
TrimTriggered_Strict(store) ==
    Cardinality(DOMAIN store) > maximum_number_of_accounts + accounts_overflow_trim_quantity

\* add_payment_with_timestamp: the test that starts the trimming
TrimTriggered(store) ==
    Cardinality(DOMAIN store) >= maximum_number_of_accounts + accounts_overflow_trim_quantity

\* Ord on (TOKENs, AccountIdentifier)
PairLess(p, q) == p[1] < q[1] \/ (p[1] = q[1] /\ p[2] < q[2])

\* BinaryHeap::peek / pop: the greatest pair
HeapMax(heap) == CHOOSE p \in heap : \A q \in heap : q = p \/ PairLess(q, p)

\* The store's keys in the order its iterator yields them, order being the
\* order of all accounts the HashMap happens to have.
IterSeq(store, order) == SelectSeq(order, LAMBDA a : a \in DOMAIN store)

RECURSIVE TrimScan(_, _, _, _)
\* select_accounts_to_trim: the second loop, from position i of the iteration
TrimScan(heap, store, iter, i) ==
    IF i > Len(iter)
    THEN heap
    ELSE LET pair == <<store[iter[i]], iter[i]>>
         IN IF heap # {} /\ pair[1] < HeapMax(heap)[1]
            THEN TrimScan((heap \cup {pair}) \ {HeapMax(heap \cup {pair})},
                          store, iter, i + 1)
            ELSE TrimScan(heap, store, iter, i + 1)

\* The selection that stops after the first loop: the first num_accounts
\* accounts the iterator yields.
SelectAccountsToTrim_FirstOnes(store, order, num_accounts) ==
    LET iter == IterSeq(store, order)
    IN {<<store[iter[i]], iter[i]>> : i \in 1..Min(num_accounts, Len(iter))}

\* LedgerBalances::select_accounts_to_trim: the pairs in the heap at the end
SelectAccountsToTrim(store, order, num_accounts) ==
    LET iter == IterSeq(store, order)
        first == {<<store[iter[i]], iter[i]>> : i \in 1..Min(num_accounts, Len(iter))}
    IN TrimScan(first, store, iter, num_accounts + 1)

RECURSIVE HeapIntoVec(_)
\* BinaryHeap::into_vec: the greatest pair first (the array of a heap of one
\* or two pairs is exactly this)
HeapIntoVec(heap) ==
    IF heap = {}
    THEN << >>
    ELSE <<HeapMax(heap)>> \o HeapIntoVec(heap \ {HeapMax(heap)})

RECURSIVE TrimLoop_NoBlock(_, _, _)
\* The loop over to_trim burning the balances without appending a block.
TrimLoop_NoBlock(L, to_trim, now) ==
    IF to_trim = << >>
    THEN [ledger |-> L, panicked |-> FALSE]
    ELSE LET operation == Burn(Head(to_trim)[2], Head(to_trim)[1])
         IN IF BalancesAddPaymentPanics(L.balances, operation)
            THEN [ledger |-> L, panicked |-> TRUE]
            ELSE TrimLoop_NoBlock([L EXCEPT !.balances = BalancesAddPayment(@, operation)],
                                  Tail(to_trim), now)

RECURSIVE TrimLoop(_, _, _)
\* add_payment_with_timestamp: the loop over to_trim
TrimLoop(L, to_trim, now) ==
    IF to_trim = << >>
    THEN [ledger |-> L, panicked |-> FALSE]
    ELSE LET operation == Burn(Head(to_trim)[2], Head(to_trim)[1])
             block == NewFromTransaction(L.blockchain.last_hash,
                                         Transaction(operation, MemoDefault, now), now)
             ab == AddBlock(L.blockchain, block)
         IN IF BalancesAddPaymentPanics(L.balances, operation) \/ ~ab.result.ok
            THEN [ledger |-> L, panicked |-> TRUE]
            ELSE TrimLoop([L EXCEPT !.balances = BalancesAddPayment(@, operation),
                                    !.blockchain = ab.bc],
                          Tail(to_trim), now)

\* A call that panicked: the message traps and the ledger is as before it.
Panicked(L) == [ledger |-> L, result |-> Err(PANIC), panicked |-> TRUE, ntrim |-> 0]

\* A call that returned.
Returned(L, result, ntrim) ==
    [ledger |-> L, result |-> result, panicked |-> FALSE, ntrim |-> ntrim]

\* Ledger::add_payment_with_timestamp: the ledger after the call, the result,
\* and the number of trim Burn blocks it appended
AddPaymentWithTimestamp(L, memo, payment, created_at_time_arg, now, order) ==
    LET pg == PurgeOldTransactions(L, now)
        P == pg.ledger
        created_at_time ==
            IF created_at_time_arg = None THEN now ELSE Unwrap(created_at_time_arg)
        transaction == Transaction(payment, memo, created_at_time)
        transaction_hash == TransactionHash(transaction)
        block == NewFromTransaction(P.blockchain.last_hash, transaction, now)
        paid == [P EXCEPT !.balances = BalancesAddPayment(@, payment)]
        ab == AddBlock(paid.blockchain, block)
        recorded ==
            [paid EXCEPT
                !.blockchain = ab.bc,
                !.transactions_by_hash =
                    [h \in (DOMAIN @) \cup {transaction_hash} |->
                        IF h = transaction_hash THEN ab.result.val ELSE @[h]],
                !.transactions_by_height =
                    Append(@, TransactionInfo(now, transaction_hash))]
        to_trim ==
            IF TrimTriggered(recorded.balances.store)
            THEN HeapIntoVec(SelectAccountsToTrim(recorded.balances.store, order,
                                                  accounts_overflow_trim_quantity))
            ELSE << >>
        trimmed == TrimLoop(recorded, to_trim, now)
    IN IF pg.panicked THEN Panicked(L)
       ELSE IF IsExpired(created_at_time, now) THEN Returned(P, Err(ERR_EXPIRED), 0)
       ELSE IF IsInFuture(created_at_time, now) THEN Returned(P, Err(ERR_FUTURE), 0)
       ELSE IF IsDuplicate(P.transactions_by_hash, transaction_hash)
       THEN Returned(P, Err(ERR_DUPLICATE), 0)
       ELSE IF BalancesAddPaymentPanics(P.balances, payment) THEN Panicked(L)
       ELSE IF ~ab.result.ok THEN Returned(paid, ab.result, 0)
       ELSE IF trimmed.panicked THEN Panicked(L)
       ELSE Returned(trimmed.ledger,
                     Ok(<<ab.result.val, Unwrap(trimmed.ledger.blockchain.last_hash)>>),
                     Len(to_trim))

\* The transaction a call submits: created_at_time defaults to now.
SubmittedTransaction(memo, payment, created_at_time_arg, now) ==
    Transaction(payment, memo,
                IF created_at_time_arg = None THEN now ELSE Unwrap(created_at_time_arg))

\* The history of accepted calls after one more call.
AcceptedAfter(acc, r, memo, payment, created_at_time_arg, now, init) ==
    IF r.panicked \/ ~r.result.ok
    THEN acc
    ELSE Append(acc,
                [transaction |->
                     SubmittedTransaction(memo, payment, created_at_time_arg, now),
                 height |-> r.result.val[1],
                 timestamp |-> now,
                 ntrim |-> r.ntrim,
                 init |-> init])

RECURSIVE FromInitLoop(_, _, _, _)
\* Ledger::from_init: the loop over initial_values, entries being the pairs its
\* iterator yields; S is [ledger, accepted, panicked]
FromInitLoop(S, entries, timestamp, order) ==
    IF entries = << >> \/ S.panicked
    THEN S
    ELSE LET payment == Mint(Head(entries)[1], Head(entries)[2])
             r == AddPaymentWithTimestamp(S.ledger, MemoDefault, payment, None,
                                          timestamp, order)
         IN FromInitLoop(
                [ledger |-> r.ledger,
                 accepted |-> AcceptedAfter(S.accepted, r, MemoDefault, payment, None,
                                            timestamp, TRUE),
                 panicked |-> r.panicked \/ ~r.result.ok],
                Tail(entries), timestamp, order)

\* Ledger::from_init
FromInit(L, acc, initial_values, timestamp, order) ==
    LET iter == IterSeq(initial_values, order)
        entries == [i \in 1..Len(iter) |-> <<iter[i], initial_values[iter[i]]>>]
    IN FromInitLoop(
           [ledger |-> [L EXCEPT !.balances.icpt_pool = TOKENs_MAX],
            accepted |-> acc, panicked |-> FALSE],
           entries, timestamp, order)

ERR_NOTIFY_OLD ==
    "You cannot send a notification for a transaction that is more than {} seconds old"
ERR_NOTIFY_SAME == "The notification state is already {}"

\* change_notification_state that accepts the state a block already has.
ChangeNotificationState_Idempotent(L, height, block_timestamp, new_state, now) ==
    LET is_notified == height \in L.blocks_notified
    IN IF TimeStampAdd(block_timestamp, transaction_window) <= now
       THEN [result |-> Err(ERR_NOTIFY_OLD), ledger |-> L]
       ELSE IF is_notified = new_state
       THEN [result |-> Ok(<< >>), ledger |-> L]
       ELSE IF is_notified
       THEN [result |-> Ok(<< >>),
             ledger |-> [L EXCEPT !.blocks_notified = @ \ {height}]]
       ELSE [result |-> Ok(<< >>),
             ledger |-> [L EXCEPT !.blocks_notified = @ \cup {height}]]

\* Ledger::change_notification_state: the result and the ledger after the call
ChangeNotificationState(L, height, block_timestamp, new_state, now) ==
    LET is_notified == height \in L.blocks_notified
    IN IF TimeStampAdd(block_timestamp, transaction_window) <= now
       THEN [result |-> Err(ERR_NOTIFY_OLD), ledger |-> L]
       ELSE IF is_notified = new_state
       THEN [result |-> Err(ERR_NOTIFY_SAME), ledger |-> L]
       ELSE IF is_notified
       THEN [result |-> Ok(<< >>),
             ledger |-> [L EXCEPT !.blocks_notified = @ \ {height}]]
       ELSE [result |-> Ok(<< >>),
             ledger |-> [L EXCEPT !.blocks_notified = @ \cup {height}]]

----------------------------------------------------------------------------
(* Spec: the Ledger *)

\* The block heights clients send notifications for.
NotifyHeights == 0..MaxNotifyHeight

\* The block_timestamp arguments clients send: the oldest and the newest time.
NotifyTimestamps == {0, MaxTime}

\* The orders a HashMap over the accounts may iterate in.
AccountOrders ==
    {o \in [1..NumAccounts -> Accounts] : \A i, j \in 1..NumAccounts : o[i] = o[j] => i = j}

\* The order that lists the accounts ascending.
AscendingOrder == [i \in 1..NumAccounts |-> i]

\* The initial_values the canister is installed with.
InitialValues == {<< >>, 1 :> 2, (1 :> 1) @@ (2 :> 1)}

\* The operations clients submit.
LedgerPayments ==
    {Mint(a, 1) : a \in Accounts}
    \cup {Burn(1, 1), Transfer(1, 2, 1, 0), Transfer(1, 2, 1, 1)}

\* The created_at_time arguments clients submit.
CreatedAtTimes == {None} \cup {Some(t) : t \in Times}

\* The number of accepted calls that clients made.
ClientPayments == Cardinality({i \in 1..Len(accepted) : ~accepted[i].init})

SetLedger(L) ==
    /\ balances' = L.balances
    /\ blockchain' = L.blockchain
    /\ blocks_notified' = L.blocks_notified
    /\ transactions_by_hash' = L.transactions_by_hash
    /\ transactions_by_height' = L.transactions_by_height

\* The orders to try for a payment: the order matters only if the payment
\* brings the store to the size that starts the trimming.
OrdersFor(bal, payment) ==
    IF BalancesAddPaymentPanics(bal, payment)
    THEN {AscendingOrder}
    ELSE IF TrimTriggered(BalancesAddPayment(bal, payment).store)
    THEN AccountOrders
    ELSE {AscendingOrder}

\* The last call left the ledger as it was: every step from here is also a
\* step from the state before that call, so the search does not repeat it.
\* (The reachable states are the same with and without this guard.)
AlreadyExplored ==
    /\ ret.op \in {"add_payment", "change_notification_state"}
    /\ ret.pre = LedgerState

\* init: Ledger::from_init with the canister's time, once, on the default ledger
LedgerFromInit ==
    /\ minting_account_id = None
    /\ \E initial_values \in InitialValues :
        \E order \in (IF Cardinality(DOMAIN initial_values) > 1
                      THEN AccountOrders ELSE {AscendingOrder}) :
            LET S == FromInit(LedgerState, accepted, initial_values, time, order)
            IN /\ ~S.panicked
               /\ SetLedger(S.ledger)
               /\ accepted' = S.accepted
               /\ ret' = [op |-> "from_init", initial_values |-> initial_values]
    /\ minting_account_id' = Some(MintingAccount)
    /\ UNCHANGED <<time, archived, in_flight>>

\* Ledger::add_payment: add_payment_with_timestamp at the canister's time
LedgerAddPayment ==
    /\ minting_account_id # None
    /\ ClientPayments < MaxLedgerPayments
    /\ ~AlreadyExplored
    /\ \E memo \in Memos, payment \in LedgerPayments, created_at_time \in CreatedAtTimes :
       \E order \in OrdersFor(balances, payment) :
        LET r == AddPaymentWithTimestamp(LedgerState, memo, payment,
                                         created_at_time, time, order)
        IN /\ SetLedger(r.ledger)
           /\ accepted' = AcceptedAfter(accepted, r, memo, payment,
                                        created_at_time, time, FALSE)
           /\ ret' = [op |-> "add_payment", memo |-> memo, payment |-> payment,
                      created_at_time |-> created_at_time, now |-> time,
                      result |-> r.result, panicked |-> r.panicked,
                      ntrim |-> r.ntrim,
                      pre |-> LedgerState, pre_accepted |-> accepted]
    /\ UNCHANGED <<minting_account_id, time, archived, in_flight>>

\* The canister's time advances.
Tick ==
    /\ minting_account_id # None
    /\ ClientPayments < MaxLedgerPayments
    /\ ~AlreadyExplored
    /\ time < MaxTime
    /\ time' = time + 1
    /\ ret' = [op |-> "tick"]
    /\ UNCHANGED <<balances, blockchain, blocks_notified, transactions_by_hash,
                   transactions_by_height, minting_account_id, archived, in_flight,
                   accepted>>

\* change_notification_state: Ledger::change_notification_state at the
\* canister's time
LedgerChangeNotificationState ==
    /\ minting_account_id # None
    /\ ClientPayments < MaxLedgerPayments
    /\ ~AlreadyExplored
    /\ \E height \in NotifyHeights, block_timestamp \in NotifyTimestamps, new_state \in BOOLEAN :
        LET r == ChangeNotificationState(LedgerState, height, block_timestamp,
                                         new_state, time)
        IN /\ SetLedger(r.ledger)
           /\ ret' = [op |-> "change_notification_state", height |-> height,
                      block_timestamp |-> block_timestamp, new_state |-> new_state,
                      now |-> time, result |-> r.result, pre |-> LedgerState]
    /\ UNCHANGED <<minting_account_id, time, archived, in_flight, accepted>>

Next == LedgerFromInit \/ LedgerAddPayment \/ LedgerChangeNotificationState \/ Tick

Spec == Init /\ [][Next]_vars

----------------------------------------------------------------------------
(* SpecArchive: the Ledger with the archiving handoff.  The handoff runs in two
   steps: up to the message to the archive, with the ledger's lock released
   before it is sent, and from the archive's answer on. *)

\* The lock test that always finds the lock free.
ArchiveLockHeld_Never(attempts) == FALSE

\* The archive's exclusive lock is held while an attempt is in flight.
ArchiveLockHeld(attempts) == attempts # << >>

\* An attempt in flight: the batch it selected, and how many calls had been
\* accepted when it selected it.
Attempt(batch) == [batch |-> batch, accepted_before |-> Len(accepted)]

\* The archive's trigger_threshold and num_blocks_to_archive.
ArchiveOptions == 1..MaxArchiveBatch

\* The operations clients submit while archiving.
ArchivePayments == {Mint(a, 1) : a \in Accounts}

\* Ledger::add_payment while archiving may be in flight
ArchiveAddPayment ==
    /\ minting_account_id # None
    /\ ClientPayments < MaxLedgerPayments
    /\ \E payment \in ArchivePayments :
       \E order \in OrdersFor(balances, payment) :
        LET r == AddPaymentWithTimestamp(LedgerState, MemoDefault, payment,
                                         None, time, order)
        IN /\ SetLedger(r.ledger)
           /\ accepted' = AcceptedAfter(accepted, r, MemoDefault, payment,
                                        None, time, FALSE)
           /\ ret' = [op |-> "add_payment", memo |-> MemoDefault, payment |-> payment,
                      created_at_time |-> None, now |-> time,
                      result |-> r.result, panicked |-> r.panicked,
                      ntrim |-> r.ntrim,
                      pre |-> LedgerState, pre_accepted |-> accepted,
                      after_failure |-> (ret.op = "archive_blocks_resume" /\ ret.failed)]
    /\ UNCHANGED <<minting_account_id, time, archived, in_flight>>

\* The archiving attempt up to the handoff: it skips if the archive's lock is
\* held, returns if there is nothing to archive, and otherwise takes the lock
\* and the batch and releases the ledger.
ArchiveBlocks ==
    /\ minting_account_id # None
    /\ \E trigger_threshold \in ArchiveOptions, num_blocks_to_archive \in ArchiveOptions :
        LET batch == GetBlocksForArchiving(blockchain, trigger_threshold,
                                           num_blocks_to_archive)
            skipped == ArchiveLockHeld(in_flight)
        IN /\ in_flight' = IF skipped \/ batch = << >>
                           THEN in_flight
                           ELSE Append(in_flight, Attempt(batch))
           /\ ret' = [op |-> "archive_blocks", skipped |-> skipped,
                      batch |-> IF skipped THEN << >> ELSE batch,
                      pre |-> LedgerState, pre_archived |-> archived,
                      pre_in_flight |-> in_flight]
    /\ UNCHANGED <<balances, blockchain, blocks_notified, transactions_by_hash,
                   transactions_by_height, minting_account_id, time, archived,
                   accepted>>

\* The attempt from the archive's answer on: Ok(count) with the whole batch
\* sent, or Err((count, reason)) with a part of it; remove_archived_blocks(count)
\* runs in both cases, and the archive's lock is released.
ArchiveBlocksResume ==
    /\ \E i \in 1..Len(in_flight) :
       \E failed \in BOOLEAN :
       \E count \in (IF failed THEN 0..Len(in_flight[i].batch)
                     ELSE {Len(in_flight[i].batch)}) :
        LET panicked == RemoveArchivedBlocksPanics(blockchain, count)
        IN /\ blockchain' = IF panicked THEN blockchain
                            ELSE RemoveArchivedBlocks(blockchain, count)
           /\ archived' = IF panicked THEN archived
                          ELSE archived \o SubSeq(blockchain.blocks, 1, count)
           /\ in_flight' = SubSeq(in_flight, 1, i - 1)
                               \o SubSeq(in_flight, i + 1, Len(in_flight))
           /\ ret' = [op |-> "archive_blocks_resume", count |-> count,
                      failed |-> failed, panicked |-> panicked,
                      attempt |-> in_flight[i],
                      pre |-> LedgerState, pre_archived |-> archived]
    /\ UNCHANGED <<balances, blocks_notified, transactions_by_hash,
                   transactions_by_height, minting_account_id, time, accepted>>

NextArchive == LedgerFromInit \/ ArchiveAddPayment \/ ArchiveBlocks \/ ArchiveBlocksResume

SpecArchive == Init /\ [][NextArchive]_vars

----------------------------------------------------------------------------
(* Polynomial (poly.rs) over the scalar field, here the integers modulo
   FieldOrder; a Polynomial is the sequence of its coefficients, a_0 first. *)

\* The order of the curve's scalar field (a prime).
FieldOrder == 5

Scalars == 0..(FieldOrder - 1)

\* EccScalar::zero, EccScalar::one
ScalarZero == 0
ScalarOne == 1

\* EccScalar::add, sub, negate, mul
ScalarAdd(a, b) == (a + b) % FieldOrder
ScalarSub(a, b) == (a + FieldOrder - b) % FieldOrder
ScalarNegate(a) == (FieldOrder - a) % FieldOrder
ScalarMul(a, b) == (a * b) % FieldOrder

\* EccScalar::invert: the inverse, and zero for zero
ScalarInvert(a) ==
    IF a = ScalarZero
    THEN ScalarZero
    ELSE CHOOSE b \in Scalars : ScalarMul(a, b) = ScalarOne

\* Polynomial::coeff, idx counted from 0
Coeff(poly, idx) == IF idx < Len(poly) THEN poly[idx + 1] ELSE ScalarZero

\* Polynomial::add
PolyAdd(lhs, rhs) ==
    LET max_coef == IF Len(lhs) > Len(rhs) THEN Len(lhs) ELSE Len(rhs)
    IN [idx \in 1..max_coef |-> ScalarAdd(Coeff(lhs, idx - 1), Coeff(rhs, idx - 1))]

RECURSIVE PolyMulCoeff(_, _, _, _)
\* Polynomial::mul: coeffs[k] summed over the pairs (i, j) with i + j = k, from i on
PolyMulCoeff(lhs, rhs, k, i) ==
    IF i >= Len(lhs)
    THEN ScalarZero
    ELSE LET j == k - i
             tmp == IF j >= 0 /\ j < Len(rhs)
                    THEN ScalarMul(lhs[i + 1], rhs[j + 1])
                    ELSE ScalarZero
         IN ScalarAdd(tmp, PolyMulCoeff(lhs, rhs, k, i + 1))

\* Polynomial::mul, both polynomials having a coefficient
PolyMul(lhs, rhs) ==
    [k \in 1..(Len(lhs) + Len(rhs) - 1) |-> PolyMulCoeff(lhs, rhs, k - 1, 0)]

\* Polynomial::mul_scalar
PolyMulScalar(poly, scalar) == [i \in 1..Len(poly) |-> ScalarMul(poly[i], scalar)]

RECURSIVE Horner_AddThenMul(_, _, _, _)
\* Polynomial::evaluate_at: the loop, adding the coefficient before multiplying
Horner_AddThenMul(poly, x, i, ans) ==
    IF i = 0
    THEN ans
    ELSE Horner_AddThenMul(poly, x, i - 1, ScalarMul(ScalarAdd(ans, poly[i]), x))

RECURSIVE Horner(_, _, _, _)
\* Polynomial::evaluate_at: the loop, the coefficients below position i still to come
Horner(poly, x, i, ans) ==
    IF i = 0
    THEN ans
    ELSE Horner(poly, x, i - 1, ScalarAdd(ScalarMul(ans, x), poly[i]))

\* Polynomial::evaluate_at
EvaluateAt(poly, x) ==
    IF poly = << >>
    THEN ScalarZero
    ELSE Horner(poly, x, Len(poly) - 1, poly[Len(poly)])

\* Polynomial::interpolate: one pass of the loop over samples[1..]
InterpolateStep(poly, base, x, y) ==
    LET diff == ScalarSub(y, EvaluateAt(poly, x))
        inv == ScalarInvert(EvaluateAt(base, x))
    IN IF inv # ScalarZero
       THEN LET scaled == PolyMulScalar(base, ScalarMul(diff, inv))
            IN [poly |-> PolyAdd(poly, scaled),
                base |-> PolyMul(scaled, <<ScalarNegate(x), ScalarOne>>)]
       ELSE [poly |-> poly, base |-> base]

RECURSIVE InterpolateLoop(_, _, _)
\* Polynomial::interpolate: the loop from sample i on, S being [poly, base]
InterpolateLoop(S, samples, i) ==
    IF i > Len(samples)
    THEN S.poly
    ELSE InterpolateLoop(InterpolateStep(S.poly, S.base, samples[i][1], samples[i][2]),
                         samples, i + 1)

\* Polynomial::interpolate
Interpolate(samples) ==
    IF samples = << >>
    THEN << >>
    ELSE InterpolateLoop([poly |-> <<samples[1][2]>>,
                          base |-> <<ScalarNegate(samples[1][1]), ScalarOne>>],
                         samples, 2)

----------------------------------------------------------------------------
(* SpecPoly: Polynomial::interpolate on the samples of a polynomial *)

\* The polynomials of degree d: d + 1 coefficients.
PolynomialsOfDegree(d) == [1..(d + 1) -> Scalars]

\* The lists of d + 1 pairwise distinct points.
SamplePoints(d) ==
    {xs \in [1..(d + 1) -> Scalars] : \A i, j \in 1..(d + 1) : xs[i] = xs[j] => i = j}

\* A polynomial and the points it is to be sampled at.
InitPoly ==
    /\ LedgerDefault
    /\ \E d \in 0..MaxDegree :
       \E p \in PolynomialsOfDegree(d), xs \in SamplePoints(d) :
          ret = [op |-> "polynomial", p |-> p, xs |-> xs]

\* The polynomial is sampled and interpolate is called on the samples.
PolyInterpolate ==
    /\ ret.op = "polynomial"
    /\ LET samples == [i \in 1..Len(ret.xs) |-> <<ret.xs[i], EvaluateAt(ret.p, ret.xs[i])>>]
       IN ret' = [op |-> "interpolate", p |-> ret.p, samples |-> samples,
                  q |-> Interpolate(samples)]
    /\ UNCHANGED <<balances, blockchain, blocks_notified, transactions_by_hash,
                   transactions_by_height, minting_account_id, time, archived,
                   in_flight, accepted>>

NextPoly == PolyInterpolate

SpecPoly == InitPoly /\ [][NextPoly]_vars

----------------------------------------------------------------------------
(* SpecSamples: Polynomial::interpolate on any list of samples *)

\* The number of samples in a list.
MaxSamples == 3

RECURSIVE SkippedSamples(_, _, _)
\* Polynomial::interpolate: the positions, from i on, of the samples the loop
\* passes over because the inverse of base at their x is zero
SkippedSamples(S, samples, i) ==
    IF i > Len(samples)
    THEN {}
    ELSE (IF ScalarInvert(EvaluateAt(S.base, samples[i][1])) = ScalarZero
          THEN {i} ELSE {})
         \cup SkippedSamples(InterpolateStep(S.poly, S.base, samples[i][1], samples[i][2]),
                             samples, i + 1)

\* Polynomial::interpolate: the positions of the samples it passes over
Skipped(samples) ==
    IF samples = << >>
    THEN {}
    ELSE SkippedSamples([poly |-> <<samples[1][2]>>,
                         base |-> <<ScalarNegate(samples[1][1]), ScalarOne>>],
                        samples, 2)

\* A list of samples.
InitSamples ==
    /\ LedgerDefault
    /\ \E n \in 0..MaxSamples :
       \E samples \in [1..n -> Scalars \X Scalars] :
          ret = [op |-> "samples", samples |-> samples]

\* interpolate is called on the samples.
SamplesInterpolate ==
    /\ ret.op = "samples"
    /\ ret' = [op |-> "interpolate", samples |-> ret.samples,
               q |-> Interpolate(ret.samples), skipped |-> Skipped(ret.samples)]
    /\ UNCHANGED <<balances, blockchain, blocks_notified, transactions_by_hash,
                   transactions_by_height, minting_account_id, time, archived,
                   in_flight, accepted>>

NextSamples == SamplesInterpolate

SpecSamples == InitSamples /\ [][NextSamples]_vars

----------------------------------------------------------------------------
(* Polynomial and EccScalar with their curve: a scalar is [curve, value], a
   Polynomial [curve, coefficients], the coefficients being values of its curve *)

\* EccCurveType
Curves == {"K256", "P256"}

\* An EccScalar of a curve.
EccScalar(curve, value) == [curve |-> curve, value |-> value]

\* ThresholdEcdsaError::CurveMismatch
CurveMismatch == "CurveMismatch"

\* Polynomial::new, the coefficients being a list of EccScalars
PolynomialNew(curve, coefficients) ==
    IF ~(\A i \in 1..Len(coefficients) : coefficients[i].curve = curve)
    THEN Err(CurveMismatch)
    ELSE Ok([curve |-> curve,
             coefficients |-> [i \in 1..Len(coefficients) |-> coefficients[i].value]])

\* Polynomial::zero
PolynomialZero(curve) == PolynomialNew(curve, << >>)

\* Polynomial::random_with_constant, rng being the scalars the generator gives
RandomWithConstant(constant, degree, rng) ==
    LET curve == constant.curve
    IN PolynomialNew(curve,
                     <<constant>> \o [i \in 1..degree |-> EccScalar(curve, rng[i])])

\* impl PartialEq for Polynomial, with the vectors compared as they are
PolynomialEq_SameLength(self, other) ==
    IF self.curve # other.curve
    THEN FALSE
    ELSE self.coefficients = other.coefficients

\* impl PartialEq for Polynomial
PolynomialEq(self, other) ==
    IF self.curve # other.curve
    THEN FALSE
    ELSE LET max_coef == IF Len(self.coefficients) > Len(other.coefficients)
                         THEN Len(self.coefficients) ELSE Len(other.coefficients)
         IN \A i \in 0..(max_coef - 1) :
               Coeff(self.coefficients, i) = Coeff(other.coefficients, i)

\* Polynomial::evaluate_at on an EccScalar
PolynomialEvaluateAt(self, x) ==
    IF self.curve # x.curve
    THEN Err(CurveMismatch)
    ELSE Ok(EccScalar(self.curve, EvaluateAt(self.coefficients, x.value)))

----------------------------------------------------------------------------
(* SpecPolyEq: the equality of two polynomials *)

\* The number of coefficients of a compared polynomial.
MaxCoefficients == 2

\* The polynomials that are compared.
ComparedPolynomials ==
    {PolynomialNew(curve, [i \in 1..Len(values) |-> EccScalar(curve, values[i])]).val :
        curve \in Curves,
        values \in UNION {[1..m -> Scalars] : m \in 0..MaxCoefficients}}

\* Two polynomials.
InitPolyEq ==
    /\ LedgerDefault
    /\ \E a \in ComparedPolynomials, b \in ComparedPolynomials :
          ret = [op |-> "polynomials", a |-> a, b |-> b]

\* a == b
PolyEqCall ==
    /\ ret.op = "polynomials"
    /\ ret' = [op |-> "eq", a |-> ret.a, b |-> ret.b,
               result |-> PolynomialEq(ret.a, ret.b)]
    /\ UNCHANGED <<balances, blockchain, blocks_notified, transactions_by_hash,
                   transactions_by_height, minting_account_id, time, archived,
                   in_flight, accepted>>

NextPolyEq == PolyEqCall

SpecPolyEq == InitPolyEq /\ [][NextPolyEq]_vars

----------------------------------------------------------------------------
(* SpecEvaluate: Polynomial::evaluate_at on zero(curve) and on the polynomials
   of random_with_constant *)

\* A polynomial, the constant it was made with if any, and a scalar.
InitEvaluate ==
    /\ LedgerDefault
    /\ \E x \in Curves \X Scalars :
          \/ \E curve \in Curves :
                ret = [op |-> "polynomial_and_x", p |-> PolynomialZero(curve).val,
                       constant |-> None, x |-> EccScalar(x[1], x[2])]
          \/ \E c \in Curves \X Scalars, degree \in 0..MaxDegree :
             \E rng \in [1..degree -> Scalars] :
                LET constant == EccScalar(c[1], c[2])
                IN ret = [op |-> "polynomial_and_x",
                          p |-> RandomWithConstant(constant, degree, rng).val,
                          constant |-> Some(constant), x |-> EccScalar(x[1], x[2])]

\* p.evaluate_at(x)
EvaluateCall ==
    /\ ret.op = "polynomial_and_x"
    /\ ret' = [op |-> "evaluate_at", p |-> ret.p, constant |-> ret.constant,
               x |-> ret.x, result |-> PolynomialEvaluateAt(ret.p, ret.x)]
    /\ UNCHANGED <<balances, blockchain, blocks_notified, transactions_by_hash,
                   transactions_by_height, minting_account_id, time, archived,
                   in_flight, accepted>>

NextEvaluate == EvaluateCall

SpecEvaluate == InitEvaluate /\ [][NextEvaluate]_vars

----------------------------------------------------------------------------
(* SpecFindBlock: Ledger::find_block_in_archive on the archive's index, a list
   of <<<<from, to>>, node>> *)

\* The greatest height of an archived block, the number of ranges of an
\* index, and the number of archive nodes.
MaxArchiveHeight == 5
MaxRanges == 3
NumNodes == 2

\* The closure given to binary_search_by, the range within or not
ArchiveOrdering_Exclusive(from, to, block_height) ==
    IF from < block_height /\ block_height < to
    THEN "Equal"
    ELSE IF from < block_height THEN "Less" ELSE "Greater"

\* The closure given to binary_search_by
ArchiveOrdering(from, to, block_height) ==
    IF from <= block_height /\ block_height <= to
    THEN "Equal"
    ELSE IF from < block_height THEN "Less" ELSE "Greater"

RECURSIVE BinarySearchBy(_, _, _, _)
\* slice::binary_search_by on index with the closure above, the positions
\* counted from 0: the search between left and right
BinarySearchBy(index, block_height, left, right) ==
    IF left >= right
    THEN Err(left)
    ELSE LET mid == left + ((right - left) \div 2)
             cmp == ArchiveOrdering(index[mid + 1][1][1], index[mid + 1][1][2], block_height)
         IN IF cmp = "Equal"
            THEN Ok(mid)
            ELSE IF cmp = "Less"
                 THEN BinarySearchBy(index, block_height, mid + 1, right)
                 ELSE BinarySearchBy(index, block_height, left, mid)

\* Ledger::find_block_in_archive, archiving being enabled
FindBlockInArchive(index, block_height) ==
    LET result == BinarySearchBy(index, block_height, 0, Len(index))
    IN IF result.ok THEN Some(index[result.val + 1][2]) ELSE None

\* The index of an archive without nodes.
InitFindBlock ==
    /\ LedgerDefault
    /\ ret = [op |-> "index", index |-> << >>]

\* The archive takes the blocks from..to, above those it has, in a node.
ExtendIndex ==
    /\ ret.op = "index"
    /\ Len(ret.index) < MaxRanges
    /\ \E from \in 0..MaxArchiveHeight, to \in 0..MaxArchiveHeight, node \in 1..NumNodes :
          /\ from <= to
          /\ (ret.index # << >>) => ret.index[Len(ret.index)][1][2] < from
          /\ ret' = [op |-> "index", index |-> Append(ret.index, <<<<from, to>>, node>>)]
    /\ UNCHANGED <<balances, blockchain, blocks_notified, transactions_by_hash,
                   transactions_by_height, minting_account_id, time, archived,
                   in_flight, accepted>>

\* find_block_in_archive(block_height)
FindBlockCall ==
    /\ ret.op = "index"
    /\ \E block_height \in 0..(MaxArchiveHeight + 1) :
          ret' = [op |-> "find_block_in_archive", index |-> ret.index,
                  block_height |-> block_height,
                  result |-> FindBlockInArchive(ret.index, block_height)]
    /\ UNCHANGED <<balances, blockchain, blocks_notified, transactions_by_hash,
                   transactions_by_height, minting_account_id, time, archived,
                   in_flight, accepted>>

NextFindBlock == ExtendIndex \/ FindBlockCall

SpecFindBlock == InitFindBlock /\ [][NextFindBlock]_vars

----------------------------------------------------------------------------
(* SpecTokens: the constructor and the arithmetic of TOKENs on two u64 operands *)

\* Two operands.
InitTokens ==
    /\ LedgerDefault
    /\ \E a \in Amounts, b \in Amounts : ret = [op |-> "operands", a |-> a, b |-> b]

\* What a call on the operands leaves unchanged.
TokensFrame ==
    UNCHANGED <<balances, blockchain, blocks_notified, transactions_by_hash,
                transactions_by_height, minting_account_id, time, archived,
                in_flight, accepted>>

\* TOKENs::new(a, b), and unpack on what it constructed
TokensNewCall ==
    /\ ret.op = "operands"
    /\ LET r == TokensNew(ret.a, ret.b)
       IN ret' = [op |-> "new", a |-> ret.a, b |-> ret.b, result |-> r,
                  unpacked |-> IF r.ok THEN Some(Unpack(r.val)) ELSE None]
    /\ TokensFrame

\* from_e8s(a) + from_e8s(b)
TokensAddCall ==
    /\ ret.op = "operands"
    /\ ret' = [op |-> "add", a |-> ret.a, b |-> ret.b, result |-> TokensAdd(ret.a, ret.b)]
    /\ TokensFrame

\* from_e8s(a) - from_e8s(b)
TokensSubCall ==
    /\ ret.op = "operands"
    /\ ret' = [op |-> "sub", a |-> ret.a, b |-> ret.b, result |-> TokensSub(ret.a, ret.b)]
    /\ TokensFrame

\* x = from_e8s(a); x += from_e8s(b)
TokensAddAssignCall ==
    /\ ret.op = "operands"
    /\ ret' = [op |-> "add_assign", a |-> ret.a, b |-> ret.b,
               panicked |-> AddAssignPanics(ret.a, ret.b),
               value |-> IF AddAssignPanics(ret.a, ret.b) THEN None
                         ELSE Some(AddAssign(ret.a, ret.b))]
    /\ TokensFrame

\* x = from_e8s(a); x -= from_e8s(b)
TokensSubAssignCall ==
    /\ ret.op = "operands"
    /\ ret' = [op |-> "sub_assign", a |-> ret.a, b |-> ret.b,
               panicked |-> SubAssignPanics(ret.a, ret.b),
               value |-> IF SubAssignPanics(ret.a, ret.b) THEN None
                         ELSE Some(SubAssign(ret.a, ret.b))]
    /\ TokensFrame

\* from_e8s(a).unpack()
TokensUnpackCall ==
    /\ ret.op = "operands"
    /\ ret' = [op |-> "unpack", a |-> ret.a, b |-> ret.b, unpacked |-> Unpack(ret.a)]
    /\ TokensFrame

NextTokens ==
    \/ TokensNewCall
    \/ TokensAddCall
    \/ TokensSubCall
    \/ TokensAddAssignCall
    \/ TokensSubAssignCall
    \/ TokensUnpackCall

SpecTokens == InitTokens /\ [][NextTokens]_vars

----------------------------------------------------------------------------
(* SpecTrim: select_accounts_to_trim on a store *)

\* The stores: some accounts, each with a balance that is not zero.
Stores ==
    UNION {[held -> 1..MaxE8s] : held \in SUBSET Accounts}

\* A store.
InitTrim ==
    /\ LedgerDefault
    /\ \E store \in Stores : ret = [op |-> "store", store |-> store]

\* A call of select_accounts_to_trim, the HashMap iterating in some order
TrimSelect ==
    /\ ret.op = "store"
    /\ \E num_accounts \in 0..(NumAccounts + 1), order \in AccountOrders :
        ret' = [op |-> "select_accounts_to_trim", store |-> ret.store,
                num_accounts |-> num_accounts, order |-> order,
                to_trim |-> SelectAccountsToTrim(ret.store, order, num_accounts)]
    /\ UNCHANGED <<balances, blockchain, blocks_notified, transactions_by_hash,
                   transactions_by_height, minting_account_id, time, archived,
                   in_flight, accepted>>

NextTrim == TrimSelect

SpecTrim == InitTrim /\ [][NextTrim]_vars

----------------------------------------------------------------------------
(* SpecNotify: Ledger::change_notification_state called again and again, with
   a time that never goes back *)

\* The heights of the requests.
MaxHeight == 2

\* One request; the request before it is kept for the claims about two
\* requests in a row.
NotifyCall ==
    \E height \in 0..MaxHeight, block_timestamp \in Times, new_state \in BOOLEAN,
       now \in time..MaxTime :
        LET r == ChangeNotificationState(LedgerState, height, block_timestamp,
                                         new_state, now)
        IN /\ SetLedger(r.ledger)
           /\ time' = now
           /\ ret' = [op |-> "change_notification_state", height |-> height,
                      block_timestamp |-> block_timestamp, new_state |-> new_state,
                      now |-> now, result |-> r.result, pre |-> LedgerState,
                      before |-> IF ret.op = "change_notification_state"
                                 THEN Some([height |-> ret.height,
                                            new_state |-> ret.new_state,
                                            ok |-> ret.result.ok])
                                 ELSE None]
           /\ UNCHANGED <<minting_account_id, archived, in_flight, accepted>>

NextNotify == NotifyCall

SpecNotify == Init /\ [][NextNotify]_vars

----------------------------------------------------------------------------
(* SpecAnyTime: Ledger::add_payment_with_timestamp called as a method, with
   any now, its error returned to the caller *)

\* One call with a now of the caller's choice.  The calls are followed up to
\* the first one that does not return Ok.
LedgerAddPaymentWithTimestamp ==
    /\ minting_account_id # None
    /\ ClientPayments < MaxLedgerPayments
    /\ ~(ret.op = "add_payment" /\ ~ret.result.ok)
    /\ \E memo \in Memos, payment \in LedgerPayments, created_at_time \in CreatedAtTimes,
          now \in Times :
       \E order \in OrdersFor(balances, payment) :
        LET r == AddPaymentWithTimestamp(LedgerState, memo, payment,
                                         created_at_time, now, order)
        IN /\ SetLedger(r.ledger)
           /\ accepted' = AcceptedAfter(accepted, r, memo, payment,
                                        created_at_time, now, FALSE)
           /\ ret' = [op |-> "add_payment", memo |-> memo, payment |-> payment,
                      created_at_time |-> created_at_time, now |-> now,
                      result |-> r.result, panicked |-> r.panicked,
                      ntrim |-> r.ntrim,
                      pre |-> LedgerState, pre_accepted |-> accepted]
    /\ UNCHANGED <<minting_account_id, time, archived, in_flight>>

\* init at any time of the clock.
LedgerFromInitAt ==
    /\ minting_account_id = None
    /\ \E timestamp \in Times :
        LET S == FromInit(LedgerState, accepted, 1 :> 2, timestamp, AscendingOrder)
        IN /\ ~S.panicked
           /\ SetLedger(S.ledger)
           /\ accepted' = S.accepted
           /\ ret' = [op |-> "from_init", initial_values |-> 1 :> 2]
    /\ minting_account_id' = Some(MintingAccount)
    /\ UNCHANGED <<time, archived, in_flight>>

NextAnyTime == LedgerFromInitAt \/ LedgerAddPaymentWithTimestamp

SpecAnyTime == Init /\ [][NextAnyTime]_vars

----------------------------------------------------------------------------
(* SpecMigration: Ledger::add_block, the blocks of an earlier ledger loaded one
   by one *)

\* Ledger::add_block: the operation is applied to the balances, then the block
\* is offered to the blockchain, whose result is returned.
LedgerAddBlock(L, block) ==
    IF BalancesAddPaymentPanics(L.balances, block.transaction.operation)
    THEN Panicked(L)
    ELSE LET paid == [L EXCEPT !.balances =
                                  BalancesAddPayment(@, block.transaction.operation)]
             ab == AddBlock(paid.blockchain, block)
         IN Returned([paid EXCEPT !.blockchain = ab.bc], ab.result, 0)

\* The transactions of the blocks loaded.
MigrationTransactions ==
    {Transaction(op, MemoDefault, 0) : op \in {Mint(1, 1), Mint(2, 1), Burn(1, 1)}}

\* One block loaded.  The calls are followed up to the first one that does not
\* return Ok.
MigrationAddBlock ==
    /\ chain_length(blockchain) < MaxChainBlocks
    /\ ~(ret.op = "ledger_add_block" /\ ~ret.result.ok)
    /\ \E parent_hash \in ChainParents, tx \in MigrationTransactions, timestamp \in Times :
        LET block == NewFromTransaction(parent_hash, tx, timestamp)
            r == LedgerAddBlock(LedgerState, block)
        IN /\ SetLedger(r.ledger)
           /\ ret' = [op |-> "ledger_add_block", block |-> block, result |-> r.result,
                      panicked |-> r.panicked, pre |-> LedgerState]
    /\ UNCHANGED <<minting_account_id, time, archived, in_flight, accepted>>

NextMigration == MigrationAddBlock

SpecMigration == Init /\ [][NextMigration]_vars

----------------------------------------------------------------------------
(* SpecBlockNotify: the Ledger with change_notification_state called only for
   blocks of the chain, each with its own height and timestamp *)

\* The number of heights flagged at a time.
MaxFlagged == 1

\* change_notification_state for a block of the chain, at the canister's time
LedgerNotifyBlock ==
    /\ minting_account_id # None
    /\ ClientPayments < MaxLedgerPayments
    /\ ~AlreadyExplored
    /\ \E height \in 0..(chain_length(blockchain) - 1),
          new_state \in (IF Cardinality(blocks_notified) < MaxFlagged
                         THEN BOOLEAN ELSE {FALSE}) :
        LET block_timestamp == Decode(Unwrap(Get(blockchain, height))).timestamp
            r == ChangeNotificationState(LedgerState, height, block_timestamp,
                                         new_state, time)
        IN /\ SetLedger(r.ledger)
           /\ ret' = [op |-> "change_notification_state", height |-> height,
                      block_timestamp |-> block_timestamp, new_state |-> new_state,
                      now |-> time, result |-> r.result, pre |-> LedgerState]
    /\ UNCHANGED <<minting_account_id, time, archived, in_flight, accepted>>

NextBlockNotify == LedgerFromInit \/ LedgerAddPayment \/ LedgerNotifyBlock \/ Tick

SpecBlockNotify == Init /\ [][NextBlockNotify]_vars

----------------------------------------------------------------------------
(* send (interface.rs): SpecSend *)

\* TRANSACTION_FEE (10_000 e8s in the code), scaled.
FeeUnits == 1

TRANSACTION_FEE == FeeUnits
MIN_BURN_AMOUNT == TRANSACTION_FEE

\* send without the test that a Mint does not go to the minting account.
SendOperation_MintToMinting(minting_acc, from, to, amount, fee) ==
    IF from = minting_acc
    THEN IF fee # TOKENs_ZERO THEN None ELSE Some(Mint(to, amount))
    ELSE IF to = minting_acc
    THEN IF fee # TOKENs_ZERO \/ amount < MIN_BURN_AMOUNT
         THEN None ELSE Some(Burn(from, amount))
    ELSE IF fee # TRANSACTION_FEE THEN None
    ELSE Some(Transfer(from, to, amount, fee))

\* send without the minimum for burns.
SendOperation_NoBurnMinimum(minting_acc, from, to, amount, fee) ==
    IF from = minting_acc
    THEN IF fee # TOKENs_ZERO \/ to = minting_acc THEN None ELSE Some(Mint(to, amount))
    ELSE IF to = minting_acc
    THEN IF fee # TOKENs_ZERO THEN None ELSE Some(Burn(from, amount))
    ELSE IF fee # TRANSACTION_FEE THEN None
    ELSE Some(Transfer(from, to, amount, fee))

\* send: the operation a request stands for, None when an assertion of its
\* branch fails (the call panics).
SendOperation(minting_acc, from, to, amount, fee) ==
    IF from = minting_acc
    THEN IF fee # TOKENs_ZERO \/ to = minting_acc THEN None ELSE Some(Mint(to, amount))
    ELSE IF to = minting_acc
    THEN IF fee # TOKENs_ZERO \/ amount < MIN_BURN_AMOUNT
         THEN None ELSE Some(Burn(from, amount))
    ELSE IF fee # TRANSACTION_FEE THEN None
    ELSE Some(Transfer(from, to, amount, fee))

\* send: can_send, the minting account, the classification, then add_payment,
\* whose error is a panic too (expect("Transfer failed")).
Send(L, minting, can_send, memo, amount, fee, from, to, created_at_time, now, order) ==
    IF ~can_send \/ minting = None THEN Panicked(L)
    ELSE LET transfer == SendOperation(Unwrap(minting), from, to, amount, fee)
         IN IF transfer = None THEN Panicked(L)
            ELSE LET r == AddPaymentWithTimestamp(L, memo, Unwrap(transfer),
                                                  created_at_time, now, order)
                 IN IF r.panicked \/ ~r.result.ok THEN Panicked(L) ELSE r

\* The accounts of a request: the clients' and the minting account.
SendAccounts == Accounts \cup {MintingAccount}

\* The send endpoint, called at the canister's time.  A call that left the
\* ledger as it was is not followed further: the calls after it are the calls
\* after the state it was made in.
LedgerSend ==
    /\ minting_account_id # None
    /\ ClientPayments < MaxLedgerPayments
    /\ ~(ret.op = "send" /\ ret.pre = LedgerState)
    /\ \E can_send \in BOOLEAN, from \in SendAccounts, to \in SendAccounts,
          amount \in Amounts, fee \in Amounts :
       \E order \in (IF SendOperation(Unwrap(minting_account_id), from, to, amount, fee) = None
                     THEN {AscendingOrder}
                     ELSE OrdersFor(balances, Unwrap(SendOperation(
                              Unwrap(minting_account_id), from, to, amount, fee)))) :
        LET r == Send(LedgerState, minting_account_id, can_send, MemoDefault, amount,
                      fee, from, to, None, time, order)
        IN /\ SetLedger(r.ledger)
           /\ accepted' =
                 (IF r.panicked THEN accepted
                  ELSE AcceptedAfter(accepted, r, MemoDefault,
                                     Unwrap(SendOperation(Unwrap(minting_account_id),
                                                          from, to, amount, fee)),
                                     None, time, FALSE))
           /\ ret' = [op |-> "send", can_send |-> can_send, from |-> from, to |-> to,
                      amount |-> amount, fee |-> fee, now |-> time,
                      result |-> r.result, panicked |-> r.panicked,
                      pre |-> LedgerState]
    /\ UNCHANGED <<minting_account_id, time, archived, in_flight>>

NextSend == LedgerFromInit \/ LedgerSend

SpecSend == Init /\ [][NextSend]_vars

----------------------------------------------------------------------------
(* get_blocks (ic_block.rs), on its own: SpecGetBlocks *)

\* usize::MAX, scaled.
UsizeMax == 4

\* a + b in usize: with overflow checks the sum that does not fit panics (None),
\* without them it wraps.
UsizeAdd(a, b, overflow_checks) ==
    IF a + b <= UsizeMax THEN Some(a + b)
    ELSE IF overflow_checks THEN None
    ELSE Some((a + b) % (UsizeMax + 1))

\* a - b in usize: with overflow checks the difference below zero panics
\* (None), without them it wraps.
UsizeSub(a, b, overflow_checks) ==
    IF a >= b THEN Some(a - b)
    ELSE IF overflow_checks THEN None
    ELSE Some((a - b) % (UsizeMax + 1))

ERR_OUT_OF_RANGE == "Requested blocks outside the range stored in the archive node"

\* The outcome of a call that panicked, and of one that returned res.
Aborted == [aborted |-> TRUE]
Completed(res) == [aborted |-> FALSE, res |-> res]

\* get_blocks: the two inclusive ends are computed in usize, the range test
\* compares them, and the slice blocks[offset..offset + length] panics when it
\* does not lie within the list.
GetBlocks(blocks, range_from_offset, range_from, length, overflow_checks) ==
    LET requested_sum == UsizeAdd(range_from, length, overflow_checks)
        requested_range_to ==
            IF requested_sum = None THEN None
            ELSE UsizeSub(Unwrap(requested_sum), 1, overflow_checks)
        available_sum == UsizeAdd(range_from_offset, Len(blocks), overflow_checks)
        range_to ==
            IF available_sum = None THEN None
            ELSE UsizeSub(Unwrap(available_sum), 1, overflow_checks)
    IN IF requested_range_to = None \/ range_to = None THEN Aborted
       ELSE IF range_from < range_from_offset
                 \/ Unwrap(requested_range_to) > Unwrap(range_to)
       THEN Completed(Err(ERR_OUT_OF_RANGE))
       ELSE LET offset == range_from - range_from_offset
                slice_end == UsizeAdd(offset, length, overflow_checks)
            IN IF slice_end = None THEN Aborted
               ELSE IF offset > Unwrap(slice_end) \/ Unwrap(slice_end) > Len(blocks)
               THEN Aborted
               ELSE Completed(Ok(SubSeq(blocks, offset + 1, Unwrap(slice_end))))

\* The block lists get_blocks is called with: up to MaxChainBlocks encoded blocks.
EncodedBlockLists == UNION {[1..n -> 1..2] : n \in 0..MaxChainBlocks}

\* The arguments of one call, and whether the build checks integer overflow.
InitGetBlocks ==
    /\ LedgerDefault
    /\ \E blocks \in EncodedBlockLists, range_from_offset \in 0..UsizeMax,
          range_from \in 0..UsizeMax, length \in 0..UsizeMax,
          overflow_checks \in BOOLEAN :
          ret = [op |-> "arguments", blocks |-> blocks,
                 range_from_offset |-> range_from_offset,
                 range_from |-> range_from, length |-> length,
                 overflow_checks |-> overflow_checks]

GetBlocksCall ==
    /\ ret.op = "arguments"
    /\ ret' = [op |-> "get_blocks", blocks |-> ret.blocks,
               range_from_offset |-> ret.range_from_offset,
               range_from |-> ret.range_from, length |-> ret.length,
               overflow_checks |-> ret.overflow_checks,
               outcome |-> GetBlocks(ret.blocks, ret.range_from_offset,
                                     ret.range_from, ret.length,
                                     ret.overflow_checks)]
    /\ UNCHANGED <<balances, blockchain, blocks_notified, transactions_by_hash,
                   transactions_by_height, minting_account_id, time, archived,
                   in_flight, accepted>>

NextGetBlocks == GetBlocksCall

SpecGetBlocks == InitGetBlocks /\ [][NextGetBlocks]_vars

----------------------------------------------------------------------------
(* iter_blocks (ic_block.rs), on its own: SpecIterBlocks *)

\* iter_blocks: start and end are clamped to the list's length, start + length
\* is a usize sum, and the slice blocks[start..end] panics when start > end.
IterBlocks(blocks, offset, length, overflow_checks) ==
    LET start == Min(offset, Len(blocks))
        sum == UsizeAdd(start, length, overflow_checks)
    IN IF sum = None THEN Aborted
       ELSE LET end == Min(Unwrap(sum), Len(blocks))
            IN IF start > end THEN Aborted
               ELSE Completed(SubSeq(blocks, start + 1, end))

\* The arguments of one call, and whether the build checks integer overflow.
InitIterBlocks ==
    /\ LedgerDefault
    /\ \E blocks \in EncodedBlockLists, offset \in 0..UsizeMax,
          length \in 0..UsizeMax, overflow_checks \in BOOLEAN :
          ret = [op |-> "arguments", blocks |-> blocks, offset |-> offset,
                 length |-> length, overflow_checks |-> overflow_checks]

IterBlocksCall ==
    /\ ret.op = "arguments"
    /\ ret' = [op |-> "iter_blocks", blocks |-> ret.blocks, offset |-> ret.offset,
               length |-> ret.length, overflow_checks |-> ret.overflow_checks,
               outcome |-> IterBlocks(ret.blocks, ret.offset, ret.length,
                                      ret.overflow_checks)]
    /\ UNCHANGED <<balances, blockchain, blocks_notified, transactions_by_hash,
                   transactions_by_height, minting_account_id, time, archived,
                   in_flight, accepted>>

NextIterBlocks == IterBlocksCall

SpecIterBlocks == InitIterBlocks /\ [][NextIterBlocks]_vars

----------------------------------------------------------------------------
(* Claims about the Blockchain, checked under SpecChain *)

\* C1: in every state reached by add_block calls (accepted or rejected) and
\* remove_archived_blocks calls, a non-empty live list ends in the block whose
\* hash is last_hash; last_hash is None exactly when no block was ever
\* appended; the first block ever appended has no parent hash and every later
\* block's parent hash is the hash of the block one height below.
C1_ChainIntegrity ==
    /\ Len(blockchain.blocks) > 0 =>
          blockchain.last_hash =
              Some(BlockHash(blockchain.blocks[Len(blockchain.blocks)]))
    /\ (blockchain.last_hash = None) <=> (Len(FullChain) = 0)
    /\ Len(FullChain) > 0 => Decode(FullChain[1]).parent_hash = None
    /\ \A i \in 2..Len(FullChain) :
          Decode(FullChain[i]).parent_hash = Some(BlockHash(FullChain[i - 1]))

\* A chain of at least two blocks, part archived and part live, on which an
\* add_block call has just been rejected.
C1_Witness ==
    /\ Len(archived) >= 1
    /\ Len(blockchain.blocks) >= 1
    /\ ret.op = "add_block"
    /\ ~ret.result.ok

\* C8: add_block_with_encoded returns the parent-mismatch error when the
\* block's parent hash differs from last_hash, the timestamp error when (the
\* parent matching) its timestamp is older than last_timestamp, and leaves the
\* blockchain as it was in both cases; otherwise it appends the encoded block,
\* sets last_hash to its hash and last_timestamp to its timestamp, and returns
\* chain_length - 1 measured after the append.
C8_AddBlockContract ==
    ret.op = "add_block" =>
        LET b == ret.block
            p == ret.pre
        IN /\ b.parent_hash # p.last_hash =>
                 IsErr(ret.result, ERR_PARENT) /\ blockchain = p
           /\ (b.parent_hash = p.last_hash /\ b.timestamp < p.last_timestamp) =>
                 IsErr(ret.result, ERR_TIMESTAMP) /\ blockchain = p
           /\ (b.parent_hash = p.last_hash /\ b.timestamp >= p.last_timestamp) =>
                 /\ ret.result.ok
                 /\ blockchain.blocks = Append(p.blocks, Encode(b))
                 /\ blockchain.last_hash = Some(BlockHash(Encode(b)))
                 /\ blockchain.last_timestamp = b.timestamp
                 /\ blockchain.num_archived_blocks = p.num_archived_blocks
                 /\ ret.result.val = chain_length(blockchain) - 1

\* An accepted append on a chain that already has archived and live blocks.
C8_Witness ==
    /\ ret.op = "add_block"
    /\ ret.result.ok
    /\ ret.pre.num_archived_blocks >= 1
    /\ Len(ret.pre.blocks) >= 1

\* C9: over every sequence of appends, accepted or rejected, last_timestamp
\* never decreases, it is the timestamp of the most recently accepted block,
\* and the timestamps of the chain's blocks are non-decreasing by height.
C9_TimestampMonotone ==
    /\ ret.op \in {"add_block", "remove_archived_blocks"} =>
          ret.pre.last_timestamp <= blockchain.last_timestamp
    /\ Len(FullChain) > 0 =>
          blockchain.last_timestamp = Decode(FullChain[Len(FullChain)]).timestamp
    /\ \A i \in 1..Len(FullChain) : \A j \in i..Len(FullChain) :
          Decode(FullChain[i]).timestamp <= Decode(FullChain[j]).timestamp

\* A block has just been rejected for its timestamp on a chain whose blocks
\* carry two different timestamps.
C9_Witness ==
    /\ ret.op = "add_block"
    /\ IsErr(ret.result, ERR_TIMESTAMP)
    /\ Len(FullChain) >= 2
    /\ Decode(FullChain[1]).timestamp < Decode(FullChain[2]).timestamp

\* C10: remove_archived_blocks(n) with n at most the live count drops the n
\* oldest live blocks and adds n to num_archived_blocks, leaving chain_length,
\* last_hash and last_timestamp as they were; get then returns None below
\* num_archived_blocks and, at every live height, the block it returned before
\* (the block appended at that height).  With n above the live count it
\* panics and the state is as before.
C10_RemoveArchivedBlocks ==
    ret.op = "remove_archived_blocks" =>
        LET p == ret.pre
            n == ret.len
        IN /\ n <= Len(p.blocks) =>
                 /\ ~ret.panicked
                 /\ blockchain.blocks = SubSeq(p.blocks, n + 1, Len(p.blocks))
                 /\ blockchain.num_archived_blocks = p.num_archived_blocks + n
                 /\ chain_length(blockchain) = chain_length(p)
                 /\ blockchain.last_hash = p.last_hash
                 /\ blockchain.last_timestamp = p.last_timestamp
                 /\ \A h \in 0..chain_length(p) :
                       IF h < blockchain.num_archived_blocks
                       THEN Get(blockchain, h) = None
                       ELSE /\ Get(blockchain, h) = Get(p, h)
                            /\ h < chain_length(p) =>
                                  Get(blockchain, h) = Some(FullChain[h + 1])
           /\ n > Len(p.blocks) =>
                 /\ ret.panicked
                 /\ blockchain = p
                 /\ archived = ret.pre_archived

\* A removal of some but not all live blocks, after an earlier removal.
C10_Witness ==
    /\ ret.op = "remove_archived_blocks"
    /\ ~ret.panicked
    /\ ret.len >= 1
    /\ ret.pre.num_archived_blocks >= 1
    /\ Len(blockchain.blocks) >= 1

----------------------------------------------------------------------------
(* Claims about the Balances, checked under SpecBalances *)

RECURSIVE SumOver(_, _)
\* The sum of the balances of the accounts in keys.
SumOver(store, keys) ==
    IF keys = {}
    THEN 0
    ELSE LET k == CHOOSE x \in keys : TRUE
         IN store[k] + SumOver(store, keys \ {k})

SumOfBalances(store) == SumOver(store, DOMAIN store)

\* C2: after any sequence of Mint, Burn and Transfer through
\* Balances::add_payment, each applied completely or aborted by a panic,
\* total_supply() + icpt_pool is TOKENs::MAX and total_supply() is the sum of
\* the balances of all accounts in the store.
C2_BalanceConservation ==
    /\ ~TotalSupplyPanics(balances)
    /\ TotalSupply(balances) + balances.icpt_pool = TOKENs_MAX
    /\ TotalSupply(balances) = SumOfBalances(balances.store)

\* A Transfer with a fee has just been applied and two accounts hold tokens.
C2_Witness ==
    /\ ret.op = "balances_add_payment"
    /\ ~ret.panicked
    /\ ret.payment.kind = "Transfer"
    /\ ret.payment.fee > 0
    /\ Cardinality(DOMAIN balances.store) = 2

----------------------------------------------------------------------------
(* Claims about the Ledger, checked under Spec *)

\* The last call was add_payment_with_timestamp and it did not trap.
PaymentReturned == ret.op = "add_payment" /\ ~ret.panicked

\* The transaction the last add_payment_with_timestamp call submitted.
RetTransaction ==
    SubmittedTransaction(ret.memo, ret.payment, ret.created_at_time, ret.now)

\* The last call was rejected with one of the three validation errors.
ValidationRejected ==
    /\ PaymentReturned
    /\ ~ret.result.ok
    /\ ret.result.err \in {ERR_EXPIRED, ERR_FUTURE, ERR_DUPLICATE}

\* The acceptances, before the last call, of the transaction it submitted.
EarlierAcceptances ==
    {i \in 1..Len(ret.pre_accepted) : ret.pre_accepted[i].transaction = RetTransaction}

\* The last call resubmitted a transaction inside the window of an acceptance.
ResubmittedInWindow ==
    /\ ret.op = "add_payment"
    /\ \E i \in EarlierAcceptances :
          /\ ret.pre_accepted[i].timestamp <= ret.now
          /\ ret.now < ret.pre_accepted[i].timestamp + transaction_window

\* The last call resubmitted, with an explicit created_at_time, a transaction
\* all of whose acceptances are a full window old, and the balances permit it.
ResubmittedAfterWindow ==
    /\ ret.op = "add_payment"
    /\ ret.created_at_time # None
    /\ EarlierAcceptances # {}
    /\ \A i \in EarlierAcceptances :
          ret.now >= ret.pre_accepted[i].timestamp + transaction_window
    /\ ~BalancesAddPaymentPanics(ret.pre.balances, ret.payment)

\* C3 as stated: a transaction resubmitted at a time now inside the window of
\* its acceptance (t <= now < t + transaction_window) is rejected with the
\* duplicate error and appends no block.
C3_Original ==
    ResubmittedInWindow =>
        /\ ~ret.panicked
        /\ IsErr(ret.result, ERR_DUPLICATE)
        /\ blockchain = ret.pre.blockchain

\* C3: with the canister's time never going back, a transaction resubmitted at
\* a time now inside the window of its acceptance (t <= now < t +
\* transaction_window) is rejected and appends no block; the error is the
\* expired error when created_at_time + transaction_window < now, and the
\* duplicate error otherwise.
C3_DuplicateOrExpired ==
    ResubmittedInWindow =>
        /\ ~ret.panicked
        /\ blockchain = ret.pre.blockchain
        /\ IF RetTransaction.created_at_time + transaction_window < ret.now
           THEN IsErr(ret.result, ERR_EXPIRED)
           ELSE IsErr(ret.result, ERR_DUPLICATE)

\* A resubmission inside the window that was rejected as a duplicate.
C3_Witness == ResubmittedInWindow /\ ~ret.panicked /\ IsErr(ret.result, ERR_DUPLICATE)

\* C4 as stated: once the window of its acceptance has elapsed, a transaction
\* with an explicit created_at_time that is resubmitted succeeds if the
\* balances permit the operation.
C4_Original == ResubmittedAfterWindow => (~ret.panicked /\ ret.result.ok)

\* C4: once the window of its acceptance has elapsed, a transaction with an
\* explicit created_at_time that is resubmitted, the balances permitting the
\* operation, succeeds if created_at_time + transaction_window >= now and is
\* rejected with the expired error otherwise; it is never a duplicate.
C4_ResubmitAfterWindow ==
    ResubmittedAfterWindow =>
        /\ ~ret.panicked
        /\ IF RetTransaction.created_at_time + transaction_window < ret.now
           THEN IsErr(ret.result, ERR_EXPIRED)
           ELSE ret.result.ok

\* A resubmission after the window that succeeded.
C4_Witness == ResubmittedAfterWindow /\ ~ret.panicked /\ ret.result.ok

\* C5 as stated: each successful call returns the height of the previous
\* successful call plus 1, the first one the chain length before it.
C5_Original ==
    /\ Len(accepted) > 0 => accepted[1].height = 0
    /\ \A i \in 2..Len(accepted) : accepted[i].height = accepted[i - 1].height + 1

\* C5: each successful call returns the chain length before it, which is the
\* height the previous successful call returned, plus 1, plus the number of
\* accounts that call trimmed (each trimmed account's Burn takes a block).
C5_HeightsDense ==
    /\ Len(accepted) > 0 => accepted[1].height = 0
    /\ \A i \in 2..Len(accepted) :
          accepted[i].height = accepted[i - 1].height + 1 + accepted[i - 1].ntrim
    /\ (PaymentReturned /\ ret.result.ok) =>
          /\ ret.result.val[1] = chain_length(ret.pre.blockchain)
          /\ chain_length(blockchain) = ret.result.val[1] + 1 + ret.ntrim

\* A successful call that follows a successful call that trimmed an account.
C5_Witness ==
    /\ PaymentReturned /\ ret.result.ok
    /\ Len(accepted) >= 2
    /\ accepted[Len(accepted) - 1].ntrim > 0

\* C6 as stated: a call rejected with a validation error leaves every part of
\* the ledger as it was before the call.
C6_Original == ValidationRejected => LedgerState = ret.pre

\* The entries of the index by height that a call at the time now keeps.
KeptAt(by_height, now) ==
    SelectSeq(by_height, LAMBDA info : info.block_timestamp + transaction_window > now)

\* C6: a call rejected with a validation error leaves the balances, the pool
\* and the blockchain as they were; of transactions_by_height it removes the
\* entries whose block_timestamp + transaction_window <= now and nothing
\* else, of transactions_by_hash the hashes of those entries, and of
\* blocks_notified the heights of those entries.
C6_RejectionOnlyPurges ==
    ValidationRejected =>
        LET kept == KeptAt(ret.pre.transactions_by_height, ret.now)
            kept_hashes == {kept[i].transaction_hash : i \in 1..Len(kept)}
            purged_heights ==
                {ret.pre.transactions_by_hash[h] :
                    h \in (DOMAIN ret.pre.transactions_by_hash) \ kept_hashes}
        IN /\ balances = ret.pre.balances
           /\ blockchain = ret.pre.blockchain
           /\ transactions_by_height = kept
           /\ DOMAIN transactions_by_hash = kept_hashes
           /\ \A h \in kept_hashes :
                 transactions_by_hash[h] = ret.pre.transactions_by_hash[h]
           /\ blocks_notified = ret.pre.blocks_notified \ purged_heights

\* A rejected call that removed an entry from the indices and a height from
\* blocks_notified.
C6_Witness ==
    /\ ValidationRejected
    /\ Len(transactions_by_height) < Len(ret.pre.transactions_by_height)
    /\ blocks_notified # ret.pre.blocks_notified

\* C7: a call is rejected with the expired error exactly when created_at_time
\* + transaction_window < now; a call that is not expired is rejected with
\* the future-timestamp error exactly when created_at_time > now +
\* PERMITTED_DRIFT; an absent created_at_time stands for now and gets neither
\* error; a call that traps has passed both checks.
C7_ExpiryAndDriftChecks ==
    ret.op = "add_payment" =>
        LET c == RetTransaction.created_at_time
            expired == c + transaction_window < ret.now
            future == c > ret.now + PERMITTED_DRIFT
        IN /\ ~ret.panicked => (IsErr(ret.result, ERR_EXPIRED) <=> expired)
           /\ (~ret.panicked /\ ~expired) => (IsErr(ret.result, ERR_FUTURE) <=> future)
           /\ ret.panicked => (~expired /\ ~future)
           /\ ret.created_at_time = None =>
                 (~IsErr(ret.result, ERR_EXPIRED) /\ ~IsErr(ret.result, ERR_FUTURE))

\* A call at the expiry boundary, created_at_time + transaction_window = now,
\* that was accepted.
C7_Witness ==
    /\ PaymentReturned /\ ret.result.ok
    /\ ret.created_at_time # None
    /\ RetTransaction.created_at_time + transaction_window = ret.now

----------------------------------------------------------------------------
(* Claims about archiving *)

\* C11: get_blocks_for_archiving returns the empty batch when the live block
\* count is below trigger_threshold, and otherwise the oldest
\* min(num_blocks_to_archive, live count) live blocks in chain order; it leaves
\* the blockchain as it was, and removing the batch leaves the other live
\* blocks.  Checked under SpecChain.
C11_GetBlocksForArchiving ==
    ret.op = "get_blocks_for_archiving" =>
        LET live == Len(ret.pre.blocks)
            n == IF ret.num_blocks_to_archive < live
                 THEN ret.num_blocks_to_archive ELSE live
        IN /\ blockchain = ret.pre
           /\ live < ret.trigger_threshold => ret.batch = << >>
           /\ live >= ret.trigger_threshold =>
                 /\ Len(ret.batch) = n
                 /\ \A i \in 1..n : ret.batch[i] = blockchain.blocks[i]
                 /\ ~RemoveArchivedBlocksPanics(blockchain, Len(ret.batch))
                 /\ Len(RemoveArchivedBlocks(blockchain, Len(ret.batch)).blocks) = live - n

\* A call exactly at the threshold that returned some but not all live blocks.
C11_Witness ==
    /\ ret.op = "get_blocks_for_archiving"
    /\ Len(ret.pre.blocks) = ret.trigger_threshold
    /\ Len(ret.batch) > 0
    /\ Len(ret.batch) < Len(ret.pre.blocks)

\* The calls accepted since the answered attempt selected its batch.
AcceptedSince == (ret.attempt.accepted_before + 1)..Len(accepted)

\* C12: when the archive answers an attempt that selected the batch B of n
\* blocks with a count k <= n, payments having been accepted in between, the
\* removal does not trap, the blocks removed are the first k blocks of B,
\* num_archived_blocks advances by k, and get returns, at the height each
\* payment accepted in between was given, the block of that payment.  Checked
\* under SpecArchive.
C12_ArchivingWithAppends ==
    ret.op = "archive_blocks_resume" =>
        /\ ~ret.panicked
        /\ archived = ret.pre_archived \o SubSeq(ret.attempt.batch, 1, ret.count)
        /\ ret.pre.blockchain.blocks =
              SubSeq(ret.attempt.batch, 1, ret.count) \o blockchain.blocks
        /\ blockchain.num_archived_blocks =
              ret.pre.blockchain.num_archived_blocks + ret.count
        /\ \A j \in AcceptedSince :
              LET found == Get(blockchain, accepted[j].height)
              IN /\ found # None
                 /\ Decode(Unwrap(found)).transaction = accepted[j].transaction
                 /\ Decode(Unwrap(found)).timestamp = accepted[j].timestamp

\* A partial success (0 < k < n) answered after a payment was accepted in between.
C12_Witness ==
    /\ ret.op = "archive_blocks_resume"
    /\ ret.failed
    /\ 0 < ret.count
    /\ ret.count < Len(ret.attempt.batch)
    /\ AcceptedSince # {}

\* C13: at most one archiving attempt is in flight; an attempt started while
\* another is in flight skips, selecting no batch and leaving the ledger, the
\* archived blocks and the attempt in flight as they were; and a payment
\* submitted while an attempt is in flight, or right after one failed, that is
\* no duplicate and that the pool can pay, is accepted and its block is on the
\* chain at the height returned.  Checked under SpecArchive.
C13_OneAttemptInFlight ==
    /\ Len(in_flight) <= 1
    /\ (ret.op = "archive_blocks" /\ ret.pre_in_flight # << >>) =>
          /\ ret.skipped
          /\ ret.batch = << >>
          /\ LedgerState = ret.pre
          /\ archived = ret.pre_archived
          /\ in_flight = ret.pre_in_flight
    /\ (/\ ret.op = "add_payment"
        /\ in_flight # << >> \/ ret.after_failure
        /\ ~IsDuplicate(ret.pre.transactions_by_hash, TransactionHash(RetTransaction))
        /\ ~BalancesAddPaymentPanics(ret.pre.balances, ret.payment)) =>
          /\ ~ret.panicked
          /\ ret.result.ok
          /\ Get(blockchain, ret.result.val[1]) # None
          /\ Decode(Unwrap(Get(blockchain, ret.result.val[1]))).transaction
                = RetTransaction

\* An attempt that skipped because another one was in flight.
C13_Witness ==
    /\ ret.op = "archive_blocks"
    /\ ret.skipped
    /\ Len(in_flight) = 1

----------------------------------------------------------------------------
(* Claims about trimming, checked under Spec *)

\* C14: a call of add_payment_with_timestamp has the same result and leaves
\* the same blockchain, balances and dedup indices whatever order the account
\* store iterates in: the outcome of the last call is the outcome the same
\* call has, from the same state, under every iteration order.
C14_Determinism ==
    ret.op = "add_payment" =>
        \A order \in AccountOrders :
            LET r == AddPaymentWithTimestamp(ret.pre, ret.memo, ret.payment,
                                             ret.created_at_time, ret.now, order)
            IN /\ r.panicked = ret.panicked
               /\ r.result = ret.result
               /\ r.ledger = LedgerState

----------------------------------------------------------------------------
(* Claims about the Polynomial, checked under SpecPoly *)

\* C15: interpolate, given the samples of a polynomial p of degree d at d + 1
\* pairwise distinct points, returns a polynomial q of at most d + 1
\* coefficients that has the value of p at every scalar.
C15_InterpolateReconstructs ==
    ret.op = "interpolate" =>
        /\ Len(ret.q) <= Len(ret.p)
        /\ \A x \in Scalars : EvaluateAt(ret.q, x) = EvaluateAt(ret.p, x)

----------------------------------------------------------------------------
(* Claims about TOKENs, checked under SpecTokens *)

\* C16: TOKENs::new(whole, subunits) succeeds exactly when subunits <
\* TOKEN_SUBDIVIDABLE_BY and whole * TOKEN_SUBDIVIDABLE_BY + subunits is at
\* most u64::MAX; it then holds exactly that value and unpack returns (whole,
\* subunits); otherwise it returns an error; one more whole token than
\* u64::MAX / TOKEN_SUBDIVIDABLE_BY fails.
C16_TokensNew ==
    ret.op = "new" =>
        LET value == ret.a * TOKEN_SUBDIVIDABLE_BY + ret.b
            fits == ret.b < TOKEN_SUBDIVIDABLE_BY /\ value <= TOKENs_MAX
        IN /\ ret.result.ok <=> fits
           /\ fits => (ret.result.val = value /\ ret.unpacked = Some(<<ret.a, ret.b>>))
           /\ (ret.a = (TOKENs_MAX \div TOKEN_SUBDIVIDABLE_BY) + 1 /\ ret.b = 0) =>
                 ~ret.result.ok

\* A construction with subunits that reaches u64::MAX exactly.
C16_Witness ==
    /\ ret.op = "new"
    /\ ret.result.ok
    /\ ret.b > 0
    /\ ret.result.val = TOKENs_MAX

\* C17: a + b is Ok with the exact sum when the sum is at most u64::MAX and an
\* error otherwise; a - b is Ok with the exact difference when a >= b and an
\* error otherwise (MAX - MAX is ZERO, ZERO - 1 fails); += and -= panic in
\* exactly the cases where + and - return an error, and otherwise store what +
\* and - return.
C17_CheckedArithmetic ==
    /\ ret.op = "add" =>
          /\ ret.result.ok <=> ret.a + ret.b <= TOKENs_MAX
          /\ ret.result.ok => ret.result.val = ret.a + ret.b
    /\ ret.op = "sub" =>
          /\ ret.result.ok <=> ret.a >= ret.b
          /\ ret.result.ok => ret.result.val = ret.a - ret.b
          /\ (ret.a = TOKENs_MAX /\ ret.b = TOKENs_MAX) =>
                (ret.result.ok /\ ret.result.val = TOKENs_ZERO)
          /\ (ret.a = TOKENs_ZERO /\ ret.b = 1) => ~ret.result.ok
    /\ ret.op = "add_assign" =>
          /\ ret.panicked <=> ret.a + ret.b > TOKENs_MAX
          /\ ~ret.panicked => ret.value = Some(ret.a + ret.b)
    /\ ret.op = "sub_assign" =>
          /\ ret.panicked <=> ret.a < ret.b
          /\ ~ret.panicked => ret.value = Some(ret.a - ret.b)

\* ZERO - from_e8s(1), which fails.
C17_Witness ==
    /\ ret.op = "sub"
    /\ ret.a = TOKENs_ZERO
    /\ ret.b = 1
    /\ ~ret.result.ok

\* C18: select_accounts_to_trim(k) on a store of n accounts returns min(k, n)
\* pairs (balance, account), each an account of the store with its balance, no
\* account twice, and every returned balance is at most the balance of every
\* account that was not returned.  Checked under SpecTrim.
C18_SelectLowest ==
    ret.op = "select_accounts_to_trim" =>
        LET n == Cardinality(DOMAIN ret.store)
            chosen == {pair[2] : pair \in ret.to_trim}
        IN /\ Cardinality(ret.to_trim) = (IF ret.num_accounts < n THEN ret.num_accounts ELSE n)
           /\ Cardinality(chosen) = Cardinality(ret.to_trim)
           /\ \A pair \in ret.to_trim :
                 /\ pair[2] \in DOMAIN ret.store
                 /\ pair[1] = ret.store[pair[2]]
           /\ \A pair \in ret.to_trim :
                 \A other \in (DOMAIN ret.store) \ chosen :
                    pair[1] <= ret.store[other]

\* A selection of two out of three accounts in which the second loop replaced
\* an account of the first loop.
C18_Witness ==
    /\ ret.op = "select_accounts_to_trim"
    /\ ret.num_accounts = 2
    /\ Cardinality(DOMAIN ret.store) = 3
    /\ ret.to_trim #
          SelectAccountsToTrim_FirstOnes(ret.store, ret.order, ret.num_accounts)

\* The store right after the last call's payment was applied, before any trimming.
PaidStore == BalancesAddPayment(ret.pre.balances, ret.payment).store

\* The blocks the last call appended after its payment's block, decoded.
TrimBlocks ==
    [i \in 1..(chain_length(blockchain) - ret.result.val[1] - 1) |->
        Decode(Unwrap(Get(blockchain, ret.result.val[1] + i)))]

\* Block b is the trim Burn of an account of store at the time now.
IsTrimBurn(b, store, now) ==
    /\ b.transaction.operation.kind = "Burn"
    /\ b.transaction.operation.from \in DOMAIN store
    /\ b.transaction.operation.amount = store[b.transaction.operation.from]
    /\ b.transaction.memo = MemoDefault
    /\ b.transaction.created_at_time = now
    /\ b.timestamp = now

\* The accounts the blocks bs burn.
BurnedAccounts(bs) == {bs[i].transaction.operation.from : i \in 1..Len(bs)}

\* C19 as stated: an accepted call appends trim Burn blocks if and only if the
\* number of accounts after its payment is strictly greater than
\* maximum_number_of_accounts + accounts_overflow_trim_quantity.
C19_Original ==
    (PaymentReturned /\ ret.result.ok) =>
        (Len(TrimBlocks) > 0
            <=> Cardinality(DOMAIN PaidStore)
                    > maximum_number_of_accounts + accounts_overflow_trim_quantity)

\* C19: an accepted call appends trim Burn blocks if and only if the number of
\* accounts after its payment is greater than or equal to
\* maximum_number_of_accounts + accounts_overflow_trim_quantity; it then
\* appends, after the payment's block, exactly accounts_overflow_trim_quantity
\* blocks, each the Burn of the full balance of a different account that has
\* one of the lowest balances, with the default memo, created_at_time = now
\* and timestamp = now, and the store afterwards is the store without the
\* burned accounts.
C19_TrimAtThreshold ==
    (PaymentReturned /\ ret.result.ok) =>
        LET triggered == Cardinality(DOMAIN PaidStore)
                            >= maximum_number_of_accounts + accounts_overflow_trim_quantity
            burned == BurnedAccounts(TrimBlocks)
        IN /\ Decode(Unwrap(Get(blockchain, ret.result.val[1]))).transaction = RetTransaction
           /\ Len(TrimBlocks) = (IF triggered THEN accounts_overflow_trim_quantity ELSE 0)
           /\ \A i \in 1..Len(TrimBlocks) : IsTrimBurn(TrimBlocks[i], PaidStore, ret.now)
           /\ Cardinality(burned) = Len(TrimBlocks)
           /\ \A a \in burned : \A other \in (DOMAIN PaidStore) \ burned :
                 PaidStore[a] <= PaidStore[other]
           /\ balances.store = [a \in (DOMAIN PaidStore) \ burned |-> PaidStore[a]]

\* An accepted call after whose payment the store held exactly
\* maximum_number_of_accounts + accounts_overflow_trim_quantity accounts, and
\* which burned one that did not have the payment's account's balance.
C19_Witness ==
    /\ PaymentReturned /\ ret.result.ok
    /\ Cardinality(DOMAIN PaidStore)
          = maximum_number_of_accounts + accounts_overflow_trim_quantity
    /\ Len(TrimBlocks) = accounts_overflow_trim_quantity
    /\ \E a \in DOMAIN PaidStore : a \notin DOMAIN balances.store

----------------------------------------------------------------------------
(* Claim about get_blocks, checked under SpecGetBlocks *)

\* What the claim says of a range, in unbounded integers.
RangeContained(blocks, base_height, requested_start, length) ==
    /\ requested_start >= base_height
    /\ requested_start + length - 1 <= base_height + Len(blocks) - 1

\* C20: for every block list, base_height, requested_start and length whose
\* sums fit a usize (length 0 and the empty list included), get_blocks does not
\* abort; it returns the out-of-range error when the inclusive range
\* [requested_start, requested_start + length - 1] is not within
\* [base_height, base_height + len(blocks) - 1], and otherwise the length
\* blocks stored at the heights requested_start .. requested_start + length - 1,
\* in order.
C20_GetBlocks ==
    (/\ ret.op = "get_blocks"
     /\ ret.range_from + ret.length <= UsizeMax
     /\ ret.range_from_offset + Len(ret.blocks) <= UsizeMax) =>
        /\ ~ret.outcome.aborted
        /\ ret.outcome.res =
              (IF RangeContained(ret.blocks, ret.range_from_offset,
                                 ret.range_from, ret.length)
               THEN Ok(SubSeq(ret.blocks,
                              ret.range_from - ret.range_from_offset + 1,
                              ret.range_from - ret.range_from_offset + ret.length))
               ELSE Err(ERR_OUT_OF_RANGE))

----------------------------------------------------------------------------
(* Claim about iter_blocks, checked under SpecIterBlocks *)

\* C21: iter_blocks never fails; it returns the blocks at the positions
\* min(offset, len) up to but excluding min(offset + length, len) of the list,
\* in order (the empty list when offset >= len or length = 0).
C21_IterBlocks ==
    (ret.op = "iter_blocks") =>
        /\ ~ret.outcome.aborted
        /\ ret.outcome.res =
              SubSeq(ret.blocks, Min(ret.offset, Len(ret.blocks)) + 1,
                     Min(ret.offset + ret.length, Len(ret.blocks)))

----------------------------------------------------------------------------
(* Claim about send, checked under SpecSend *)

\* The rule the last send request falls under is met.
SendRuleMet ==
    IF ret.from = MintingAccount
    THEN ret.fee = 0 /\ ret.to # MintingAccount
    ELSE IF ret.to = MintingAccount
    THEN ret.fee = 0 /\ ret.amount >= MIN_BURN_AMOUNT
    ELSE ret.fee = TRANSACTION_FEE

\* The operation the last send request stands for.
SendClass ==
    IF ret.from = MintingAccount THEN Mint(ret.to, ret.amount)
    ELSE IF ret.to = MintingAccount THEN Burn(ret.from, ret.amount)
    ELSE Transfer(ret.from, ret.to, ret.amount, ret.fee)

----------------------------------------------------------------------------
(* Claim about change_notification_state, checked under SpecNotify *)

\* C23: change_notification_state returns an error and leaves blocks_notified
\* as it was if block_timestamp + transaction_window <= now or if new_state is
\* the flag the height already has; otherwise it sets the height's flag to
\* new_state and changes no other height's flag.  Of two requests in a row for
\* the same height with the same new_state, the second fails if the first
\* succeeded.
C23_ChangeNotificationState ==
    (ret.op = "change_notification_state") =>
        /\ IF \/ ret.block_timestamp + transaction_window <= ret.now
              \/ (ret.height \in ret.pre.blocks_notified) = ret.new_state
           THEN ~ret.result.ok /\ blocks_notified = ret.pre.blocks_notified
           ELSE /\ ret.result.ok
                /\ (ret.height \in blocks_notified) = ret.new_state
                /\ \A h \in (0..MaxHeight) \ {ret.height} :
                      (h \in blocks_notified) = (h \in ret.pre.blocks_notified)
        /\ (/\ ret.before # None
            /\ Unwrap(ret.before).height = ret.height
            /\ Unwrap(ret.before).new_state = ret.new_state
            /\ Unwrap(ret.before).ok) => ~ret.result.ok

\* The same request was made twice in a row while another height was flagged:
\* the first one set the flag and the second one, still within the window,
\* was refused.
C23_Witness ==
    /\ ret.op = "change_notification_state"
    /\ ret.before # None
    /\ Unwrap(ret.before).height = ret.height
    /\ Unwrap(ret.before).new_state = ret.new_state
    /\ Unwrap(ret.before).ok
    /\ ret.block_timestamp + transaction_window > ret.now
    /\ IsErr(ret.result, ERR_NOTIFY_SAME)
    /\ \E h \in blocks_notified : h # ret.height

----------------------------------------------------------------------------
(* Claims about the dedup indices and the effects of a payment, checked under
   Spec *)

\* The hashes in transactions_by_height.
QueueHashes ==
    {transactions_by_height[i].transaction_hash : i \in 1..Len(transactions_by_height)}

\* C24: in every reachable state transactions_by_hash and
\* transactions_by_height have the same number of entries, the hashes in the
\* queue are pairwise distinct and are the keys of transactions_by_hash; so
\* the assert! of purge_old_transactions fails at no time.
C24_DedupLockstep ==
    /\ Len(transactions_by_height) = Cardinality(DOMAIN transactions_by_hash)
    /\ \A i, j \in 1..Len(transactions_by_height) :
          transactions_by_height[i].transaction_hash
              = transactions_by_height[j].transaction_hash => i = j
    /\ QueueHashes = DOMAIN transactions_by_hash
    /\ \A now \in Times : ~PurgeOldTransactions(LedgerState, now).panicked

\* A payment was accepted whose call purged an entry and left another one in
\* the queue before adding its own.
C24_Witness ==
    /\ PaymentReturned /\ ret.result.ok
    /\ Len(transactions_by_height) >= 2
    /\ \E h \in DOMAIN ret.pre.transactions_by_hash : h \notin DOMAIN transactions_by_hash

----------------------------------------------------------------------------
(* Claim about a failed append, checked under SpecAnyTime *)

\* C25: when the chain append inside add_payment_with_timestamp fails, the
\* payment's effects on the balances and the pool are not kept, no block is
\* appended and no dedup entry is recorded.
C25_FailedAppendAborts ==
    (/\ ret.op = "add_payment"
     /\ \/ IsErr(ret.result, ERR_TIMESTAMP)
        \/ IsErr(ret.result, ERR_PARENT)) =>
        /\ balances = ret.pre.balances
        /\ blockchain = ret.pre.blockchain
        /\ TransactionHash(RetTransaction) \notin DOMAIN transactions_by_hash

----------------------------------------------------------------------------
(* Claim about Ledger::add_block, checked under SpecMigration *)

\* C26: Ledger::add_block called with a block whose parent_hash is not
\* last_hash, or whose timestamp is older than last_timestamp, returns an error
\* and leaves the blockchain, the balances and the pool as they were.
C26_LedgerAddBlockRejects ==
    (/\ ret.op = "ledger_add_block"
     /\ ~ret.panicked
     /\ \/ ret.block.parent_hash # ret.pre.blockchain.last_hash
        \/ ret.block.timestamp < ret.pre.blockchain.last_timestamp) =>
        /\ ~ret.result.ok
        /\ blockchain = ret.pre.blockchain
        /\ balances = ret.pre.balances

\* C27: with now never going back, no two blocks appended for client requests
\* carry the same transaction (operation, memo, created_at_time).
C27_NoReplay ==
    \A i, j \in 1..Len(accepted) :
        (i # j /\ ~accepted[i].init /\ ~accepted[j].init) =>
            accepted[i].transaction # accepted[j].transaction

\* C28 as stated: the hash an accepted call returns is the hash of the encoded
\* block stored at the height it returns.
C28_Original ==
    (PaymentReturned /\ ret.result.ok) =>
        /\ Get(blockchain, ret.result.val[1]) # None
        /\ ret.result.val[2] = BlockHash(Unwrap(Get(blockchain, ret.result.val[1])))

\* C28: the block at the height an accepted call returns carries the submitted
\* transaction, and the hash it returns is the hash of the last block the call
\* appended, the tip of the chain: the block at the returned height if the call
\* trimmed no account, and otherwise the Burn block of the last trimmed
\* account, as many blocks above the returned height as accounts were trimmed.
C28_ReturnedHashIsTip ==
    (PaymentReturned /\ ret.result.ok) =>
        LET height == ret.result.val[1]
            tip == chain_length(blockchain) - 1
        IN /\ Get(blockchain, height) # None
           /\ Decode(Unwrap(Get(blockchain, height))).transaction = RetTransaction
           /\ tip = height + ret.ntrim
           /\ Get(blockchain, tip) # None
           /\ ret.result.val[2] = BlockHash(Unwrap(Get(blockchain, tip)))
           /\ ret.ntrim > 0 =>
                 Decode(Unwrap(Get(blockchain, tip))).transaction.operation.kind = "Burn"

\* An accepted call that trimmed an account and returned the hash of the Burn
\* block above its own.
C28_Witness ==
    /\ PaymentReturned /\ ret.result.ok
    /\ ret.ntrim > 0
    /\ ret.result.val[2] = BlockHash(Unwrap(Get(blockchain, ret.result.val[1] + ret.ntrim)))
    /\ ret.result.val[2] # BlockHash(Unwrap(Get(blockchain, ret.result.val[1])))

RECURSIVE ReplayedBalances(_)
\* The balances that applying the operations of the encoded blocks, in order,
\* to no balances and a full pool gives.
ReplayedBalances(blocks) ==
    IF blocks = << >> THEN BalancesNew
    ELSE BalancesAddPayment(ReplayedBalances(SubSeq(blocks, 1, Len(blocks) - 1)),
                            Decode(blocks[Len(blocks)]).transaction.operation)

\* C29: with now never going back, the balances and the pool are at every point
\* what replaying the operations of all blocks ever appended (archived and
\* live, the trim Burns included) in height order gives, from no balances and
\* the pool at TOKENs::MAX.
C29_BalancesAreReplay == balances = ReplayedBalances(FullChain)

\* A chain with a client's payment and a trim Burn, replayed to balances that
\* hold an account.
C29_Witness ==
    /\ PaymentReturned /\ ret.result.ok
    /\ ret.ntrim > 0
    /\ chain_length(blockchain) >= 3
    /\ balances.store # << >>
    /\ balances = ReplayedBalances(FullChain)

\* The block at a height of the whole chain, decoded.
ChainBlock(height) == Decode(FullChain[height + 1])

\* The heights of the blocks appended for payments: the clients' and
\* from_init's, not the trim Burns.
PaymentHeights == {accepted[i].height : i \in 1..Len(accepted)}

\* The dedup index holds exactly the transactions of the blocks at the given
\* heights that are less than a window old at the time now, each with its
\* block's height.
IndexIsExactly(heights, now) ==
    LET recent == {h \in heights : ChainBlock(h).timestamp + transaction_window > now}
    IN /\ DOMAIN transactions_by_hash
             = {TransactionHash(ChainBlock(h).transaction) : h \in recent}
       /\ \A hash \in DOMAIN transactions_by_hash :
             /\ transactions_by_hash[hash] \in recent
             /\ TransactionHash(ChainBlock(transactions_by_hash[hash]).transaction) = hash

\* C30 as stated: after a call at the time now, a transaction hash is in
\* transactions_by_hash if and only if a block the ledger appended, a payment's
\* or a trim Burn, with timestamp t and t + transaction_window > now carries
\* the transaction, and the height recorded is that block's.
C30_Original ==
    PaymentReturned => IndexIsExactly(0..(chain_length(blockchain) - 1), ret.now)

\* C30: after a call at the time now, a transaction hash is in
\* transactions_by_hash if and only if a block appended for a payment (not a
\* trim Burn) with timestamp t and t + transaction_window > now carries the
\* transaction, and the height recorded is that block's; the queue lists the
\* same hashes.
C30_IndexOfRecentPayments ==
    PaymentReturned =>
        /\ IndexIsExactly(PaymentHeights, ret.now)
        /\ QueueHashes = DOMAIN transactions_by_hash

\* After an accepted call that trimmed an account, the index holds the call's
\* transaction and no longer holds that of an older block.
C30_Witness ==
    /\ PaymentReturned /\ ret.result.ok
    /\ ret.ntrim > 0
    /\ TransactionHash(RetTransaction) \in DOMAIN transactions_by_hash
    /\ \E h \in PaymentHeights :
          TransactionHash(ChainBlock(h).transaction) \notin DOMAIN transactions_by_hash

----------------------------------------------------------------------------
(* Claim about the notification flags, checked under SpecBlockNotify *)

\* C31: with change_notification_state called only with the height and the
\* timestamp of a block of the chain, after every add_payment_with_timestamp
\* at the time now no flagged height is that of a block with timestamp t and
\* t + transaction_window <= now, and every flagged height is recorded in
\* transactions_by_hash.
C31_FlagsPruned ==
    PaymentReturned =>
        \A height \in blocks_notified :
            /\ ChainBlock(height).timestamp + transaction_window > ret.now
            /\ \E hash \in DOMAIN transactions_by_hash :
                  transactions_by_hash[hash] = height

----------------------------------------------------------------------------
(* Claim about the order of the queue, checked under SpecAnyTime *)

\* The entries of a queue that are less than a window old at the time now, in
\* the queue's order.
RecentEntries(queue, now) ==
    LET Recent(info) == info.block_timestamp + transaction_window > now
    IN SelectSeq(queue, Recent)

\* C32: transactions_by_height is ordered by non-decreasing block_timestamp,
\* and purge_old_transactions at any time now removes from both indices exactly
\* the entries with block_timestamp + transaction_window <= now and keeps the
\* others in their order.
C32_QueueOrderedPurgeExact ==
    /\ \A i, j \in 1..Len(transactions_by_height) :
          i < j => transactions_by_height[i].block_timestamp
                      <= transactions_by_height[j].block_timestamp
    /\ \A now \in Times :
          LET purged == PurgeOldTransactions(LedgerState, now)
              kept == RecentEntries(transactions_by_height, now)
          IN /\ ~purged.panicked
             /\ purged.ledger.transactions_by_height = kept
             /\ DOMAIN purged.ledger.transactions_by_hash
                   = {kept[i].transaction_hash : i \in 1..Len(kept)}
             /\ \A hash \in DOMAIN purged.ledger.transactions_by_hash :
                   purged.ledger.transactions_by_hash[hash] = transactions_by_hash[hash]

\* A call found entries of two different block timestamps in the queue, purged
\* the older one and kept the newer one.
C32_Witness ==
    /\ PaymentReturned
    /\ \E i, j \in 1..Len(ret.pre.transactions_by_height) :
          /\ ret.pre.transactions_by_height[i].block_timestamp + transaction_window <= ret.now
          /\ ret.pre.transactions_by_height[j].block_timestamp + transaction_window > ret.now
          /\ ret.pre.transactions_by_height[i].transaction_hash
                \notin DOMAIN transactions_by_hash
          /\ ret.pre.transactions_by_height[j].transaction_hash
                \in DOMAIN transactions_by_hash

----------------------------------------------------------------------------
(* Claims about the accounts, checked under Spec *)

\* The amount the last call's payment debits from its source account.
DebitAmount ==
    IF ret.payment.kind = "Transfer"
    THEN ret.payment.amount + ret.payment.fee
    ELSE ret.payment.amount

\* C33: a Burn or Transfer whose source account is absent from the store or
\* holds less than the amount to debit (amount + fee for a Transfer) does not
\* return Ok: the call aborts, or was refused before the balances were looked
\* at; it changes no balance and not the pool, and appends no block.  No
\* balance is ever negative or above TOKENs::MAX.
C33_DebitAborts ==
    /\ \A a \in DOMAIN balances.store : balances.store[a] \in 0..TOKENs_MAX
    /\ balances.icpt_pool \in 0..TOKENs_MAX
    /\ (/\ ret.op = "add_payment"
        /\ ret.payment.kind \in {"Burn", "Transfer"}
        /\ \/ ret.payment.from \notin DOMAIN ret.pre.balances.store
           \/ ret.pre.balances.store[ret.payment.from] < DebitAmount) =>
          /\ ret.panicked \/ ValidationRejected
          /\ balances = ret.pre.balances
          /\ blockchain = ret.pre.blockchain

\* A Transfer whose source holds the amount but not the amount and the fee
\* aborted on a ledger with blocks.
C33_Witness ==
    /\ ret.op = "add_payment"
    /\ ret.payment.kind = "Transfer"
    /\ ret.payment.from \in DOMAIN ret.pre.balances.store
    /\ ret.pre.balances.store[ret.payment.from] >= ret.payment.amount
    /\ ret.pre.balances.store[ret.payment.from] < DebitAmount
    /\ ret.panicked
    /\ chain_length(blockchain) > 0
    /\ balances = ret.pre.balances

----------------------------------------------------------------------------
(* Claim about the store, checked under SpecBalances *)

\* C34: in every reachable state the store holds no entry with a zero balance
\* (a debit down to zero removes the entry, a credit of zero to an absent
\* account creates none), and account_balance of an absent account is ZERO.
C34_NoZeroEntries ==
    /\ \A a \in DOMAIN balances.store : balances.store[a] # TOKENs_ZERO
    /\ \A a \in Accounts \ DOMAIN balances.store : AccountBalance(balances, a) = TOKENs_ZERO
    /\ (ret.op = "balances_add_payment" /\ ~ret.panicked) =>
          /\ (ret.payment.kind = "Burn"
                /\ ret.pre.store[ret.payment.from] = ret.payment.amount) =>
                ret.payment.from \notin DOMAIN balances.store
          /\ (ret.payment.kind = "Mint" /\ ret.payment.amount = 0) =>
                balances.store = ret.pre.store

\* A Burn of an account's whole balance removed it while another account kept
\* its entry.
C34_Witness ==
    /\ ret.op = "balances_add_payment" /\ ~ret.panicked
    /\ ret.payment.kind = "Burn"
    /\ ret.payment.amount > 0
    /\ ret.payment.from \in DOMAIN ret.pre.store
    /\ ret.payment.from \notin DOMAIN balances.store
    /\ balances.store # << >>

----------------------------------------------------------------------------
(* Claim about the number of accounts, checked under Spec *)

\* C35: from a ledger that starts below the ceiling, after from_init and after
\* every successful add_payment_with_timestamp the number of accounts in the
\* store is strictly less than
\* maximum_number_of_accounts + accounts_overflow_trim_quantity.
C35_AccountCeiling ==
    Cardinality(DOMAIN balances.store)
        < maximum_number_of_accounts + accounts_overflow_trim_quantity

\* A payment brought the store to the ceiling and the call left it with
\* maximum_number_of_accounts accounts.
C35_Witness ==
    /\ PaymentReturned /\ ret.result.ok
    /\ Cardinality(DOMAIN PaidStore)
          = maximum_number_of_accounts + accounts_overflow_trim_quantity
    /\ Cardinality(DOMAIN balances.store) = maximum_number_of_accounts

----------------------------------------------------------------------------
(* Claim about the minting account, checked under SpecSend *)

\* C36: on a ledger initialised with initial_values that do not include the
\* minting account, after any sequence of send calls the minting account has
\* no entry in the store and its account_balance is ZERO.
C36_MintingAccountEmpty ==
    /\ MintingAccount \notin DOMAIN balances.store
    /\ AccountBalance(balances, MintingAccount) = TOKENs_ZERO

\* A send from the minting account was carried out as a Mint, after an earlier
\* send, and a Mint to the minting account was refused.
C36_Witness ==
    /\ ret.op = "send"
    /\ ret.from = MintingAccount /\ ret.to = MintingAccount /\ ret.fee = 0
    /\ ret.amount > 0
    /\ ret.can_send
    /\ ret.panicked
    /\ \E i \in 1..Len(accepted) :
          ~accepted[i].init /\ accepted[i].transaction.operation.kind = "Mint"

----------------------------------------------------------------------------
(* Claim about repeated sample points, checked under SpecSamples *)

\* The positions of the samples whose x is the x of an earlier sample.
RepeatedPositions(samples) ==
    {i \in 1..Len(samples) : \E j \in 1..(i - 1) : samples[j][1] = samples[i][1]}

RECURSIVE WithoutPositions(_, _)
\* The list without the samples at the given positions.
WithoutPositions(samples, positions) ==
    IF samples = << >> THEN << >>
    ELSE LET front == WithoutPositions(SubSeq(samples, 1, Len(samples) - 1), positions)
         IN IF Len(samples) \in positions
            THEN front
            ELSE Append(front, samples[Len(samples)])

\* C37: interpolate passes over a sample whose x is the x of an earlier sample,
\* so its result is the result for the list without those samples, and it
\* passes over no other sample.
C37_OnlyRepeatedSkipped ==
    (ret.op = "interpolate") =>
        /\ ret.q = Interpolate(WithoutPositions(ret.samples, RepeatedPositions(ret.samples)))
        /\ RepeatedPositions(ret.samples) \subseteq ret.skipped
        /\ ret.skipped \subseteq RepeatedPositions(ret.samples)

----------------------------------------------------------------------------
(* Claim about the equality of polynomials, checked under SpecPolyEq *)

\* The coefficients followed by field zeros up to n of them.
Padded(coefficients, n) ==
    [i \in 1..n |-> IF i <= Len(coefficients) THEN coefficients[i] ELSE ScalarZero]

\* C38: two polynomials are equal exactly when they are of one curve and
\* their coefficients agree once the shorter list is padded with zeros;
\* equality is reflexive, symmetric and transitive.
C38_EqualityUpToTrailingZeros ==
    (ret.op = "eq") =>
        LET a == ret.a
            b == ret.b
            n == IF Len(a.coefficients) > Len(b.coefficients)
                 THEN Len(a.coefficients) ELSE Len(b.coefficients)
        IN /\ ret.result <=> (/\ a.curve = b.curve
                              /\ Padded(a.coefficients, n) = Padded(b.coefficients, n))
           /\ (a.curve # b.curve) => ~ret.result
           /\ PolynomialEq(a, a)
           /\ ret.result <=> PolynomialEq(b, a)
           /\ \A c \in ComparedPolynomials :
                 (ret.result /\ PolynomialEq(b, c)) => PolynomialEq(a, c)

\* Two polynomials of different lengths, not all zero, are equal.
C38_Witness ==
    /\ ret.op = "eq"
    /\ ret.result
    /\ Len(ret.a.coefficients) < Len(ret.b.coefficients)
    /\ ret.a.coefficients # << >>
    /\ ret.a.coefficients[1] # ScalarZero

----------------------------------------------------------------------------
(* Claim about evaluate_at, checked under SpecEvaluate *)

RECURSIVE Power(_, _)
\* x to the n, in the integers.
Power(x, n) == IF n = 0 THEN 1 ELSE x * Power(x, n - 1)

RECURSIVE PowerSum(_, _, _)
\* c_0 + c_1 * x + ... + c_n * x^n in the integers, from the term of x^i on.
PowerSum(coefficients, x, i) ==
    IF i >= Len(coefficients)
    THEN 0
    ELSE coefficients[i + 1] * Power(x, i) + PowerSum(coefficients, x, i + 1)

\* C39: evaluate_at(x) is the field value of c_0 + c_1 * x + ... + c_n * x^n,
\* zero for the empty polynomial and the constant of random_with_constant at
\* x = 0; for an x of another curve it is the curve-mismatch error.
C39_EvaluateAt ==
    (ret.op = "evaluate_at") =>
        IF ret.x.curve # ret.p.curve
        THEN ret.result = Err(CurveMismatch)
        ELSE /\ ret.result =
                   Ok(EccScalar(ret.p.curve,
                                PowerSum(ret.p.coefficients, ret.x.value, 0) % FieldOrder))
             /\ (ret.p.coefficients = << >>) =>
                    ret.result.val.value = ScalarZero
             /\ (ret.x.value = ScalarZero /\ IsSome(ret.constant)) =>
                    ret.result.val = Unwrap(ret.constant)

\* A polynomial of degree two with a constant is evaluated at a scalar that
\* is neither zero nor one.
C39_Witness ==
    /\ ret.op = "evaluate_at"
    /\ ret.result.ok
    /\ IsSome(ret.constant)
    /\ Len(ret.p.coefficients) = 3
    /\ ret.p.coefficients[3] # ScalarZero
    /\ ret.x.value > 1

----------------------------------------------------------------------------
(* Claim about find_block_in_archive, checked under SpecFindBlock *)

\* The positions of the ranges that contain the height.
RangesContaining(index, height) ==
    {i \in 1..Len(index) : index[i][1][1] <= height /\ height <= index[i][1][2]}

\* C40: on a sorted index of ranges that do not overlap, find_block_in_archive
\* returns the node of the one range that contains the height, and None when
\* no range contains it.
C40_FindBlockInArchive ==
    (ret.op = "find_block_in_archive") =>
        LET found == RangesContaining(ret.index, ret.block_height)
        IN IF found = {}
           THEN ret.result = None
           ELSE /\ \A i, j \in found : i = j
                /\ \A i \in found : ret.result = Some(ret.index[i][2])

\* A height at the end of the last of three ranges is found, the nodes of
\* the ranges differing and a gap lying before the range.
C40_Witness ==
    /\ ret.op = "find_block_in_archive"
    /\ Len(ret.index) = 3
    /\ ret.index[3][1][2] = ret.block_height
    /\ ret.index[2][1][2] + 1 < ret.index[3][1][1]
    /\ ret.index[2][2] # ret.index[3][2]
    /\ ret.result = Some(ret.index[3][2])

====
